---- MODULE Spec2Model ----
(***************************************************************************)
(* Monthly Budget Manager: the BudgetMonth ledger (budget_manager.py), its *)
(* CSV bridge (read_csv / BudgetApp.save_csv) and the Tk front-end's       *)
(* handlers that mutate the ledger (budget_manager_gui.py).                *)
(*                                                                         *)
(* Text is a sequence of one-character strings, so that strip(), lower(),  *)
(* isdigit(), slicing and split() are computed as Python computes them.    *)
(* Python's None is the one-element sequence None below, which no text     *)
(* equals because "None" is not a character.                               *)
(*                                                                         *)
(* A float is a record [k, n, d]: k = "fin" is the rational n/d in lowest  *)
(* terms with d > 0, k = "inf" is the infinity of sign n, k = "nan" is NaN.*)
(* Finite arithmetic is exact (the rounding of binary floating point is    *)
(* not modelled); NaN and the infinities propagate as in IEEE 754.         *)
(***************************************************************************)
EXTENDS Integers, Sequences, FiniteSets, TLC

\* ------------------------------------------------------------------ text

None == <<"None">>

Truthy(s) == s # None /\ s # <<>>

\* Python's `a or b` on optional text
Or(a, b) == IF Truthy(a) THEN a ELSE b

Digits == <<"0", "1", "2", "3", "4", "5", "6", "7", "8", "9">>

UpperChars == <<"A", "B", "C", "D", "E", "F", "G", "H", "I", "J", "K", "L", "M",
                "N", "O", "P", "Q", "R", "S", "T", "U", "V", "W", "X", "Y", "Z">>

LowerChars == <<"a", "b", "c", "d", "e", "f", "g", "h", "i", "j", "k", "l", "m",
                "n", "o", "p", "q", "r", "s", "t", "u", "v", "w", "x", "y", "z">>

IsSpace(c) == c = " "

IsDigitChar(c) == \E i \in 1..10 : Digits[i] = c

DigitVal(c) == (CHOOSE i \in 1..10 : Digits[i] = c) - 1

LowerChar(c) ==
  IF \E i \in 1..26 : UpperChars[i] = c
  THEN LowerChars[CHOOSE i \in 1..26 : UpperChars[i] = c]
  ELSE c

\* str.lower()
Lower(s) == [i \in 1..Len(s) |-> LowerChar(s[i])]

RECURSIVE LStrip(_)
LStrip(s) == IF s # <<>> /\ IsSpace(Head(s)) THEN LStrip(Tail(s)) ELSE s

RECURSIVE RStrip(_)
RStrip(s) ==
  IF s # <<>> /\ IsSpace(s[Len(s)]) THEN RStrip(SubSeq(s, 1, Len(s) - 1)) ELSE s

\* str.strip()
Strip(s) == RStrip(LStrip(s))

\* str.isdigit(): non-empty and every character a digit
IsDigit(s) == s # <<>> /\ \A i \in 1..Len(s) : IsDigitChar(s[i])

\* int(s) of an all-digit text
RECURSIVE ParseInt(_)
ParseInt(s) ==
  IF s = <<>> THEN 0 ELSE ParseInt(SubSeq(s, 1, Len(s) - 1)) * 10 + DigitVal(s[Len(s)])

\* str(n) of a natural number
RECURSIVE IntToText(_)
IntToText(n) ==
  IF n < 10 THEN <<Digits[n + 1]>> ELSE IntToText(n \div 10) \o <<Digits[(n % 10) + 1]>>

\* f"{n:02d}" of a natural number
Pad2(n) == IF n < 10 THEN <<"0">> \o IntToText(n) ELSE IntToText(n)

\* s.replace(",", "")
RECURSIVE RemoveCommas(_)
RemoveCommas(s) ==
  IF s = <<>> THEN <<>>
  ELSE IF Head(s) = "," THEN RemoveCommas(Tail(s))
  ELSE <<Head(s)>> \o RemoveCommas(Tail(s))

\* s.split('-'): the sequence of the parts between the separators
RECURSIVE SplitDash(_)
SplitDash(s) ==
  IF \A i \in 1..Len(s) : s[i] # "-" THEN <<s>>
  ELSE LET p == CHOOSE i \in 1..Len(s) : s[i] = "-" /\ \A j \in 1..(i - 1) : s[j] # "-"
       IN  <<SubSeq(s, 1, p - 1)>> \o SplitDash(SubSeq(s, p + 1, Len(s)))

\* ------------------------------------------------------------------ floats

Abs(x) == IF x < 0 THEN -x ELSE x

RECURSIVE Gcd(_, _)
Gcd(a, b) == IF b = 0 THEN a ELSE Gcd(b, a % b)

\* the finite float n/d (d # 0), in lowest terms with a positive denominator
Fin(n, d) ==
  LET g == Gcd(Abs(n), Abs(d))
      s == IF d < 0 THEN -1 ELSE 1
  IN  [k |-> "fin", n |-> (s * n) \div g, d |-> (s * d) \div g]

Zero == [k |-> "fin", n |-> 0, d |-> 1]
NaN == [k |-> "nan", n |-> 0, d |-> 1]
Inf(sign) == [k |-> "inf", n |-> sign, d |-> 1]

IsFin(x) == x.k = "fin"

\* x > y, x <= y, x < y on floats: every comparison with NaN is false
FGt(x, y) ==
  CASE x.k = "nan" \/ y.k = "nan" -> FALSE
    [] x.k = "inf" /\ y.k = "inf" -> x.n > y.n
    [] x.k = "inf" -> x.n > 0
    [] y.k = "inf" -> y.n < 0
    [] OTHER -> x.n * y.d > y.n * x.d

FLt(x, y) == FGt(y, x)

FLe(x, y) == x.k # "nan" /\ y.k # "nan" /\ ~FGt(x, y)

FNeg(x) == IF x.k = "nan" THEN NaN ELSE [x EXCEPT !.n = -x.n]

FAdd(x, y) ==
  CASE x.k = "nan" \/ y.k = "nan" -> NaN
    [] x.k = "inf" /\ y.k = "inf" -> IF x.n = y.n THEN x ELSE NaN
    [] x.k = "inf" -> x
    [] y.k = "inf" -> y
    [] OTHER -> LET g == Gcd(x.d, y.d)
                IN  Fin(x.n * (y.d \div g) + y.n * (x.d \div g), (x.d \div g) * y.d)

FSub(x, y) == FAdd(x, FNeg(y))

\* (a/b) * (c/d), the common factors taken out before multiplying
FinProduct(a, b, c, d) ==
  LET g1 == Gcd(Abs(a), Abs(d))
      g2 == Gcd(Abs(c), Abs(b))
  IN  Fin((a \div g1) * (c \div g2), (b \div g2) * (d \div g1))

Sign(n) == IF n > 0 THEN 1 ELSE IF n < 0 THEN -1 ELSE 0

FMul(x, y) ==
  CASE x.k = "nan" \/ y.k = "nan" -> NaN
    [] x.k = "inf" \/ y.k = "inf" ->
         IF Sign(x.n) * Sign(y.n) = 0 THEN NaN ELSE Inf(Sign(x.n) * Sign(y.n))
    [] OTHER -> FinProduct(x.n, x.d, y.n, y.d)

\* the result of x / y; Python raises ZeroDivisionError for a zero divisor
ZeroDivisionError == [k |-> "ZeroDivisionError", n |-> 0, d |-> 1]

FDiv(x, y) ==
  CASE x.k = "nan" \/ y.k = "nan" -> NaN
    [] y.k = "fin" /\ y.n = 0 -> ZeroDivisionError
    [] x.k = "inf" /\ y.k = "inf" -> NaN
    [] x.k = "inf" -> Inf(x.n * Sign(y.n))
    [] y.k = "inf" -> Zero
    [] OTHER -> FinProduct(x.n, x.d, y.d, y.n)

Hundred == Fin(100, 1)

\* (x / y) * 100.0, an exception in the division propagating
Pct(x, y) ==
  LET q == FDiv(x, y) IN IF q = ZeroDivisionError THEN q ELSE FMul(q, Hundred)

\* the integer nearest to n/d (d > 0), ties to even
RoundHalfEven(n, d) ==
  LET q == n \div d
      r == n % d
  IN  IF 2 * r < d THEN q
      ELSE IF 2 * r > d THEN q + 1
      ELSE IF q % 2 = 0 THEN q ELSE q + 1

\* the integer nearest to 100 * n/d (d > 0), ties to even; the whole part is
\* scaled apart from the fraction
Cents(n, d) == (n \div d) * 100 + RoundHalfEven((n % d) * 100, d)

\* round(x, 2)
Round2(x) == IF IsFin(x) THEN Fin(Cents(x.n, x.d), 100) ELSE x

\* f"{x:.2f}"
Format2f(x) ==
  CASE x.k = "nan" -> <<"n", "a", "n">>
    [] x.k = "inf" -> IF x.n < 0 THEN <<"-", "i", "n", "f">> ELSE <<"i", "n", "f">>
    [] OTHER ->
         LET c == Cents(Abs(x.n), x.d)
             sgn == IF x.n < 0 THEN <<"-">> ELSE <<>>
         IN  sgn \o IntToText(c \div 100) \o <<".">> \o Pad2(c % 100)

RECURSIVE Pow10(_)
Pow10(e) == IF e = 0 THEN 1 ELSE 10 * Pow10(e - 1)

ValueError == [k |-> "ValueError", n |-> 0, d |-> 1]
TypeError == [k |-> "TypeError", n |-> 0, d |-> 1]

IsException(x) == x.k \in {"ValueError", "TypeError", "ZeroDivisionError", "AttributeError"}

\* float(text): surrounding blanks ignored, an optional sign, then nan, inf,
\* infinity (any letter case) or a decimal number with at least one digit;
\* ValueError otherwise. (Exponents and digit-group underscores are outside
\* the modelled input alphabet.)
ParseFloat(text) ==
  LET s == Strip(text)
      signed == s # <<>> /\ Head(s) \in {"+", "-"}
      sgn == IF signed /\ Head(s) = "-" THEN -1 ELSE 1
      body == IF signed THEN Tail(s) ELSE s
      low == Lower(body)
      dots == {i \in 1..Len(body) : body[i] = "."}
      dot == IF dots = {} THEN Len(body) + 1 ELSE CHOOSE i \in dots : TRUE
      ip == SubSeq(body, 1, dot - 1)
      fp == SubSeq(body, dot + 1, Len(body))
  IN  IF low = <<"n", "a", "n">> THEN NaN
      ELSE IF low = <<"i", "n", "f">> \/ low = <<"i", "n", "f", "i", "n", "i", "t", "y">>
           THEN Inf(sgn)
      ELSE IF /\ Cardinality(dots) <= 1
              /\ \A i \in 1..Len(body) : IsDigitChar(body[i]) \/ body[i] = "."
              /\ Len(ip) + Len(fp) >= 1
           THEN Fin(sgn * ParseInt(ip \o fp), Pow10(Len(fp)))
      ELSE ValueError

\* ------------------------------------------------------------------ core ledger

T_Income == <<"I", "n", "c", "o", "m", "e">>
T_Expense == <<"E", "x", "p", "e", "n", "s", "e">>
T_Uncategorized == <<"U", "n", "c", "a", "t", "e", "g", "o", "r", "i", "z", "e", "d">>
T_income == <<"i", "n", "c", "o", "m", "e">>
T_expense == <<"e", "x", "p", "e", "n", "s", "e">>
T_expenses == <<"e", "x", "p", "e", "n", "s", "e", "s">>

\* An argument passed where a float is expected: a float, a text or None
FloatArg(f) == [t |-> "float", f |-> f, s |-> <<>>]
TextArg(s) == [t |-> "str", f |-> Zero, s |-> s]
NoneArg == [t |-> "none", f |-> Zero, s |-> <<>>]

\* float(value)
ToFloat(value) ==
  CASE value.t = "float" -> value.f
    [] value.t = "str" -> ParseFloat(value.s)
    [] OTHER -> TypeError

\* max(a, b): the first argument unless the second is greater
Max2(a, b) == IF FGt(b, a) THEN b ELSE a

ClampSwappedMax(value) ==
  LET v == ToFloat(value) IN IF IsException(v) THEN Zero ELSE Max2(v, Zero)

_clamp_non_negative(value) ==
  LET v == ToFloat(value) IN IF IsException(v) THEN Zero ELSE Max2(Zero, v)

\* Income(name, amount, date) and Expense(name, amount, category, date)
Income(name, amount, date) == [name |-> name, amount |-> amount, date |-> date]

Expense(name, amount, category, date) ==
  [name |-> name, amount |-> amount, category |-> category, date |-> date]

\* the entry BudgetMonth.add_income appends to a ledger whose month is m
NewIncome(m, name, amount, date) ==
  Income(Or(Strip(name), T_Income), _clamp_non_negative(amount), Or(date, m))

\* add_expense whose category is stripped but not defaulted again afterwards
NewExpenseStripLast(m, name, amount, category, date) ==
  Expense(Or(Strip(name), T_Expense), _clamp_non_negative(amount),
          Strip(Or(category, T_Uncategorized)), Or(date, m))

\* the entry BudgetMonth.add_expense appends to a ledger whose month is m
NewExpense(m, name, amount, category, date) ==
  Expense(Or(Strip(name), T_Expense), _clamp_non_negative(amount),
          Or(Strip(Or(category, T_Uncategorized)), T_Uncategorized), Or(date, m))

\* sum(x.amount for x in entries): a left fold from 0
RECURSIVE SumAmounts(_)
SumAmounts(entries) ==
  IF entries = <<>> THEN Zero
  ELSE FAdd(SumAmounts(SubSeq(entries, 1, Len(entries) - 1)), entries[Len(entries)].amount)

TotalIncomeOfExpenses(inc, exp) == SumAmounts(exp)

total_income(inc, exp) == SumAmounts(inc)

total_expenses(inc, exp) == SumAmounts(exp)

NetSwapped(inc, exp) == FSub(total_expenses(inc, exp), total_income(inc, exp))

net(inc, exp) == FSub(total_income(inc, exp), total_expenses(inc, exp))

\* a dict is a function from its keys; d[k] += v on a defaultdict(float)
\* d[k] = v in place of d[k] += v
AddToReplacing(d, key, v) ==
  IF key \in DOMAIN d THEN [d EXCEPT ![key] = v] ELSE d @@ (key :> FAdd(Zero, v))

AddTo(d, key, v) ==
  IF key \in DOMAIN d THEN [d EXCEPT ![key] = FAdd(@, v)] ELSE d @@ (key :> FAdd(Zero, v))

EmptyDict == [x \in {} |-> Zero]

RECURSIVE Buckets(_)
Buckets(exp) ==
  IF exp = <<>> THEN EmptyDict
  ELSE AddTo(Buckets(SubSeq(exp, 1, Len(exp) - 1)), exp[Len(exp)].category,
             exp[Len(exp)].amount)

RECURSIVE BucketsSkippingZero(_)
BucketsSkippingZero(exp) ==
  IF exp = <<>> THEN EmptyDict
  ELSE LET e == exp[Len(exp)]
           b == BucketsSkippingZero(SubSeq(exp, 1, Len(exp) - 1))
       IN  IF e.amount = Zero THEN b ELSE AddTo(b, e.category, e.amount)

ByCategorySkippingZero(inc, exp) == BucketsSkippingZero(exp)

expenses_by_category(inc, exp) == Buckets(exp)

\* a call's outcome: exc is "none" and val the value returned, or exc names
\* the exception raised
Returned(v) == [exc |-> "none", val |-> v]
Raised(e) == [exc |-> e, val |-> Zero]

\* the same for a call that returns a text
RaisedT(e) == [exc |-> e, val |-> None]

PercentagesUnguarded(inc, exp, relative_to) ==
  LET base == IF relative_to = T_income THEN total_income(inc, exp)
              ELSE total_expenses(inc, exp)
      by_cat == expenses_by_category(inc, exp)
  IN  IF \E c \in DOMAIN by_cat : Pct(by_cat[c], base) = ZeroDivisionError
      THEN Raised("ZeroDivisionError")
      ELSE Returned([c \in DOMAIN by_cat |-> Pct(by_cat[c], base)])

expense_percentages_by_category(inc, exp, relative_to) ==
  LET base == IF relative_to = T_income THEN total_income(inc, exp)
              ELSE total_expenses(inc, exp)
      by_cat == expenses_by_category(inc, exp)
  IN  IF FLe(base, Zero) THEN Returned([c \in DOMAIN by_cat |-> Zero])
      ELSE IF \E c \in DOMAIN by_cat : Pct(by_cat[c], base) = ZeroDivisionError
           THEN Raised("ZeroDivisionError")
           ELSE Returned([c \in DOMAIN by_cat |-> Pct(by_cat[c], base)])

ProfitMarginGuardLt(inc, exp) ==
  LET income == total_income(inc, exp)
  IN  IF FLt(income, Zero) THEN Returned(Zero)
      ELSE LET p == Pct(net(inc, exp), income)
           IN  IF p = ZeroDivisionError THEN Raised("ZeroDivisionError") ELSE Returned(p)

profit_margin(inc, exp) ==
  LET income == total_income(inc, exp)
  IN  IF FLe(income, Zero) THEN Returned(Zero)
      ELSE LET p == Pct(net(inc, exp), income)
           IN  IF p = ZeroDivisionError THEN Raised("ZeroDivisionError") ELSE Returned(p)

_round_map(d) == [c \in DOMAIN d |-> Round2(d[c])]

\* BudgetMonth.to_dict(); an exception raised while a field is computed
\* is the outcome of the whole call
to_dict(m, inc, exp) ==
  LET pm == profit_margin(inc, exp)
      pi == expense_percentages_by_category(inc, exp, T_income)
      pe == expense_percentages_by_category(inc, exp, T_expenses)
  IN  IF pm.exc # "none" THEN Raised(pm.exc)
      ELSE IF pi.exc # "none" THEN Raised(pi.exc)
      ELSE IF pe.exc # "none" THEN Raised(pe.exc)
      ELSE Returned(
        [month |-> m,
         incomes |-> inc,
         expenses |-> exp,
         totals |-> [income |-> Round2(total_income(inc, exp)),
                     expenses |-> Round2(total_expenses(inc, exp)),
                     net |-> Round2(net(inc, exp)),
                     profit_margin_pct |-> Round2(pm.val)],
         breakdown |-> [by_category |-> _round_map(expenses_by_category(inc, exp)),
                        percent_of_income |-> _round_map(pi.val),
                        percent_of_expenses |-> _round_map(pe.val)]])

\* ------------------------------------------------------------------ CSV bridge

T_type == <<"t", "y", "p", "e">>
T_name == <<"n", "a", "m", "e">>
T_amount == <<"a", "m", "o", "u", "n", "t">>
T_category == <<"c", "a", "t", "e", "g", "o", "r", "y">>
T_date == <<"d", "a", "t", "e">>
T_year == <<"y", "e", "a", "r">>
T_month == <<"m", "o", "n", "t", "h">>
T_day == <<"d", "a", "y">>
T_0 == <<"0">>

\* the characters of the modelled alphabet in code-point order
CharOrder == <<" ", "+", ",", "-", ".">> \o Digits \o UpperChars \o LowerChars

CharRank(c) == CHOOSE i \in 1..Len(CharOrder) : CharOrder[i] = c

\* a < b on str
RECURSIVE TextLt(_, _)
TextLt(a, b) ==
  IF b = <<>> THEN FALSE
  ELSE IF a = <<>> THEN TRUE
  ELSE IF Head(a) = Head(b) THEN TextLt(Tail(a), Tail(b))
  ELSE CharRank(Head(a)) < CharRank(Head(b))

\* sorted(S) of a set of texts
RECURSIVE Sorted(_)
Sorted(S) ==
  IF S = {} THEN <<>>
  ELSE LET m == CHOOSE x \in S : \A y \in S : x = y \/ TextLt(x, y)
       IN  <<m>> \o Sorted(S \ {m})

\* A CSV file is the sequence of its rows as csv.reader yields them, each a
\* sequence of field texts; csv.DictReader takes the first row as fieldnames
\* (none for an empty file) and skips the rows without any field.
Fieldnames(file) == IF file = <<>> THEN <<>> ELSE file[1]

DataRows(file) == IF file = <<>> THEN <<>> ELSE SelectSeq(Tail(file), LAMBDA r : r # <<>>)

\* row_l.get(key) for the row that csv.DictReader builds from the fields:
\* the dict maps each fieldname to the field of its last column (None for a
\* column the row lacks), keeps the keys in first-occurrence order, and
\* row_l lets a later key replace an earlier one of the same lower-case
\* spelling. Values are stripped, a missing value reading as "".
RowGet(fieldnames, fields, key) ==
  LET cols == {i \in 1..Len(fieldnames) : Lower(fieldnames[i]) = key}
      First(i) == \A j \in 1..(i - 1) : fieldnames[j] # fieldnames[i]
      firsts == {i \in cols : First(i)}
  IN  IF cols = {} THEN None
      ELSE LET f == CHOOSE i \in firsts : \A j \in firsts : j <= i
               same == {i \in cols : fieldnames[i] = fieldnames[f]}
               c == CHOOSE i \in same : \A j \in same : j <= i
           IN  IF c <= Len(fields) THEN Strip(fields[c]) ELSE <<>>

\* int(s) for the texts Python's int() accepts here (surrounding blanks are
\* already stripped): an optional sign and digits; ok is FALSE for ValueError
IntOf(s) ==
  LET signed == s # <<>> /\ Head(s) \in {"+", "-"}
      body == IF signed THEN Tail(s) ELSE s
  IN  IF IsDigit(body)
      THEN [ok |-> TRUE, v |-> IF signed /\ Head(s) = "-" THEN -ParseInt(body) ELSE ParseInt(body)]
      ELSE [ok |-> FALSE, v |-> 0]

\* f"{v:02d}"
Format02d(v) == IF v < 0 THEN <<"-">> \o IntToText(-v) ELSE Pad2(v)

\* The date of a row (lines 158-167): exc is "ValueError" when int(month) raises
RowDate(fieldnames, fields) ==
  LET date_val == RowGet(fieldnames, fields, T_date)
      year == RowGet(fieldnames, fields, T_year)
      month == RowGet(fieldnames, fields, T_month)
      day == RowGet(fieldnames, fields, T_day)
  IN  IF Truthy(date_val) THEN Returned(date_val)
      ELSE IF Truthy(year) /\ Truthy(month) /\ Len(year) = 4 /\ Len(month) \in {1, 2}
           THEN IF ~IntOf(month).ok THEN RaisedT("ValueError")
                ELSE IF Truthy(day) /\ IsDigit(day)
                     THEN Returned(year \o <<"-">> \o Format02d(IntOf(month).v)
                                   \o <<"-">> \o Format02d(ParseInt(day)))
                     ELSE Returned(year \o <<"-">> \o Format02d(IntOf(month).v))
           ELSE Returned(date_val)

\* float(amount_str), 0.0 on ValueError (lines 168-171)
RowAmount(amount_str) ==
  LET a == ParseFloat(amount_str) IN IF a = ValueError THEN Zero ELSE a

\* One pass of the loop body of read_csv on the parse state acc
ReadRow(fieldnames, fields, acc) ==
  IF acc.exc # "none" THEN acc
  ELSE IF Len(fields) > Len(fieldnames)
       THEN [acc EXCEPT !.exc = "AttributeError", !.incomes = <<>>, !.expenses = <<>>]
  ELSE LET rtype == RowGet(fieldnames, fields, T_type)
           name == Or(RowGet(fieldnames, fields, T_name),
                      IF rtype = T_income THEN T_Income ELSE T_Expense)
           amount_str == Or(RowGet(fieldnames, fields, T_amount), T_0)
           dv == RowDate(fieldnames, fields)
           amount == _clamp_non_negative(FloatArg(RowAmount(amount_str)))
       IN  IF dv.exc # "none"
           THEN [acc EXCEPT !.exc = dv.exc, !.incomes = <<>>, !.expenses = <<>>]
           ELSE IF rtype = T_income
                THEN [acc EXCEPT !.incomes = Append(@, Income(name, amount, dv.val))]
           ELSE IF rtype = T_expense
                THEN [acc EXCEPT !.expenses =
                        Append(@, Expense(name, amount,
                                          Or(RowGet(fieldnames, fields, T_category),
                                             T_Uncategorized),
                                          dv.val))]
           ELSE acc

RECURSIVE ReadRows(_, _, _)
ReadRows(fieldnames, rows, acc) ==
  IF rows = <<>> THEN acc
  ELSE ReadRows(fieldnames, Tail(rows), ReadRow(fieldnames, Head(rows), acc))

RequiredHeaders == {T_type, T_name, T_amount}

MissingHeadersCaseSensitive(fieldnames) ==
  RequiredHeaders \ {fieldnames[i] : i \in 1..Len(fieldnames)}

MissingHeaders(fieldnames) ==
  RequiredHeaders \ {Lower(fieldnames[i]) : i \in 1..Len(fieldnames)}

\* read_csv(path) on the file's rows: exc is "none" and incomes, expenses the
\* lists returned, or exc names the exception raised; missing is the list the
\* missing-headers ValueError names
read_csv(file) ==
  LET fieldnames == Fieldnames(file)
      missing == MissingHeaders(fieldnames)
      start == [exc |-> "none", missing |-> <<>>, incomes |-> <<>>, expenses |-> <<>>]
  IN  IF missing # {}
      THEN [start EXCEPT !.exc = "MissingColumns", !.missing = Sorted(missing)]
      ELSE ReadRows(fieldnames, DataRows(file), start)

\* The rows BudgetApp.save_csv writes for a ledger (lines 461-465)
SaveHeader == <<T_type, T_name, T_category, T_amount, T_date>>

SaveIncomeRowEntryDateOnly(m, inc) ==
  <<T_income, inc.name, <<>>, Format2f(inc.amount), Or(inc.date, <<>>)>>

SaveIncomeRow(m, inc) ==
  <<T_income, inc.name, <<>>, Format2f(inc.amount), Or(inc.date, Or(m, <<>>))>>

SaveExpenseRow(m, exp) ==
  <<T_expense, exp.name, exp.category, Format2f(exp.amount), Or(exp.date, Or(m, <<>>))>>

save_csv(m, inc, exp) ==
  <<SaveHeader>> \o [i \in 1..Len(inc) |-> SaveIncomeRow(m, inc[i])]
                 \o [i \in 1..Len(exp) |-> SaveExpenseRow(m, exp[i])]

\* ------------------------------------------------------------------ dates (GUI)

\* s[a:b] with 0-based Python bounds
Slice(s, a, b) == SubSeq(s, a + 1, IF b > Len(s) THEN Len(s) ELSE b)

_valid_ym(s) ==
  /\ Len(s) = 7
  /\ s[5] = "-"
  /\ IsDigit(Slice(s, 0, 4))
  /\ IsDigit(Slice(s, 5, 7))
  /\ ParseInt(Slice(s, 5, 7)) >= 1
  /\ ParseInt(Slice(s, 5, 7)) <= 12

IsLeap(y) == (y % 4 = 0 /\ y % 100 # 0) \/ y % 400 = 0

DaysInMonth(y, m) ==
  IF m = 2 THEN (IF IsLeap(y) THEN 29 ELSE 28)
  ELSE IF m \in {4, 6, 9, 11} THEN 30 ELSE 31

\* datetime.date(y, m, d) does not raise ValueError
DateExists(y, m, d) ==
  /\ y >= 1 /\ y <= 9999
  /\ m >= 1 /\ m <= 12
  /\ d >= 1 /\ d <= DaysInMonth(y, m)

\* _valid_ymd(s): "True", "False", or "ValueError" when the unpacking of
\* s.split('-') into three names raises
_valid_ymd(s) ==
  IF Len(s) # 10 \/ s[5] # "-" \/ s[8] # "-" THEN "False"
  ELSE LET parts == SplitDash(s)
       IN  IF Len(parts) # 3 THEN "ValueError"
           ELSE IF ~(IsDigit(parts[1]) /\ IsDigit(parts[2]) /\ IsDigit(parts[3])) THEN "False"
           ELSE IF DateExists(ParseInt(parts[1]), ParseInt(parts[2]), ParseInt(parts[3]))
                THEN "True" ELSE "False"

\* date.today() as the texts strftime gives for "%Y-%m-%d" and "%Y-%m"
TodayYmd == <<"2", "0", "2", "5", "-", "0", "8", "-", "1", "5">>

TodayYm == Slice(TodayYmd, 0, 7)

\* d.strftime("%Y-%m-%d") (the C library does not pad the year)
Strftime(y, m, d) == IntToText(y) \o <<"-">> \o Pad2(m) \o <<"-">> \o Pad2(d)

\* _normalize_date_input(s) with the Month field holding vm: the pair
\* (normalized, error message) as [date, err], err = None for no error;
\* exc = "ValueError" when _valid_ymd raises
Normalized(date) == [exc |-> "none", date |-> date, err |-> None]
DateError(msg) == [exc |-> "none", date |-> None, err |-> msg]

E_format == <<"f", "o", "r", "m", "a", "t">>
E_range == <<"r", "a", "n", "g", "e">>
E_day == <<"d", "a", "y">>

_normalize_date_input(text, vm) ==
  LET s == Strip(text)
      m == Strip(Or(vm, <<>>))
  IN  IF s = <<>> THEN (IF _valid_ym(m) THEN Normalized(m) ELSE Normalized(None))
      ELSE IF _valid_ym(s) THEN Normalized(s)
      ELSE IF _valid_ymd(s) = "ValueError" THEN [exc |-> "ValueError", date |-> None, err |-> None]
      ELSE IF _valid_ymd(s) = "True" THEN Normalized(s)
      ELSE IF IsDigit(s)
           THEN LET day == ParseInt(s)
                    base == IF _valid_ym(m) THEN m ELSE TodayYm
                    y == ParseInt(Slice(base, 0, 4))
                    mo == ParseInt(Slice(base, 5, 7))
                IN  IF ~(day >= 1 /\ day <= 31) THEN DateError(E_range)
                    ELSE IF ~DateExists(y, mo, day) THEN DateError(E_day)
                    ELSE Normalized(Strftime(y, mo, day))
      ELSE DateError(E_format)

\* the dates _infer_month_from_entries visits, in order
EntryDates(inc, exp) ==
  [i \in 1..Len(inc) |-> inc[i].date] \o [i \in 1..Len(exp) |-> exp[i].date]

\* the YYYY-MM a date counts for, None if it counts for none
MonthOf(ds) ==
  IF ~Truthy(ds) THEN None
  ELSE IF _valid_ymd(ds) = "True" THEN Slice(ds, 0, 7)
  ELSE IF _valid_ym(ds) THEN ds
  ELSE None

\* _infer_month_from_entries(): the month returned (None for no month), or
\* exc = "ValueError" when _valid_ymd raises on an entry's date
_infer_month_from_entries(inc, exp) ==
  LET ds == EntryDates(inc, exp)
      yms == {MonthOf(ds[i]) : i \in 1..Len(ds)} \ {None}
      Count(ym) == Cardinality({i \in 1..Len(ds) : MonthOf(ds[i]) = ym})
  IN  IF \E i \in 1..Len(ds) : Truthy(ds[i]) /\ _valid_ymd(ds[i]) = "ValueError"
      THEN RaisedT("ValueError")
      ELSE IF yms = {} THEN Returned(None)
      ELSE Returned(CHOOSE ym \in yms :
                      \A o \in yms : \/ o = ym
                                     \/ Count(o) < Count(ym)
                                     \/ (Count(o) = Count(ym) /\ TextLt(ym, o)))

\* ------------------------------------------------------------------ dates (CLI)

\* s.split('-', 1): the texts before and after the first dash
SplitFirstDash(s) ==
  LET dashes == {i \in 1..Len(s) : s[i] = "-"}
  IN  IF dashes = {} THEN <<s>>
      ELSE LET i == CHOOSE j \in dashes : \A k \in dashes : j <= k
           IN  <<SubSeq(s, 1, i - 1), SubSeq(s, i + 1, Len(s))>>

_is_valid_ym(s) ==
  IF Len(s) # 7 \/ s[5] # "-" THEN FALSE
  ELSE LET parts == SplitFirstDash(s)
       IN  /\ IsDigit(parts[1])
           /\ IsDigit(parts[2])
           /\ ParseInt(parts[2]) >= 1
           /\ ParseInt(parts[2]) <= 12

\* _is_valid_ymd(s): "True", "False", or "ValueError" when the unpacking of
\* s.split('-') into three names raises
_is_valid_ymd(s) ==
  IF Len(s) # 10 \/ s[5] # "-" \/ s[8] # "-" THEN "False"
  ELSE LET parts == SplitDash(s)
       IN  IF Len(parts) # 3 THEN "ValueError"
           ELSE IF ~(IsDigit(parts[1]) /\ IsDigit(parts[2]) /\ IsDigit(parts[3])) THEN "False"
           ELSE IF /\ 1 <= ParseInt(parts[2]) /\ ParseInt(parts[2]) <= 12
                   /\ 1 <= ParseInt(parts[3]) /\ ParseInt(parts[3]) <= 31
                THEN "True" ELSE "False"

\* _ask_date(default) when the user types line: the date returned, or
\* exc = "ValueError" when _is_valid_ymd raises
_ask_date(default, line) ==
  LET effective_default == Or(default, TodayYmd)
      raw == Strip(line)
  IN  IF raw = <<>> THEN Normalized(effective_default)
      ELSE IF _is_valid_ymd(raw) = "ValueError"
           THEN [exc |-> "ValueError", date |-> None, err |-> None]
      ELSE IF _is_valid_ymd(raw) = "True" \/ _is_valid_ym(raw) THEN Normalized(raw)
      ELSE Normalized(effective_default)

\* ------------------------------------------------------------------ state

VARIABLES
  app,          \* "cli": budget_manager.main; "gui": BudgetApp; "mobile": BudgetMobile
  month,        \* bm.month
  incomes,      \* bm.incomes; the mobile app's self.incomes
  expenses,     \* bm.expenses; the mobile app's self.expenses
  var_month,    \* the text of the GUI's Month field
  last,         \* history: the latest operation, its amount argument, its outcome
  csv_pc,       \* read_csv: "idle", "rows" (in the loop), "returned" or "raised"
  csv_fieldnames, \* read_csv: reader.fieldnames
  csv_rows,     \* read_csv: the rows read so far
  csv_acc,      \* read_csv: exc, missing and the two lists built so far
  call,         \* history: the latest call of a date helper, its arguments and result
  meta          \* the mobile app's meta_year and meta_month

ledger == <<app, month, incomes, expenses, var_month, last>>

csv == <<csv_pc, csv_fieldnames, csv_rows, csv_acc>>

vars == <<app, month, incomes, expenses, var_month, last,
          csv_pc, csv_fieldnames, csv_rows, csv_acc, call, meta>>

\* the entries a ledger holds in the model, incomes and expenses together
MaxEntries == 4

Room(n) == Len(incomes) + Len(expenses) + n <= MaxEntries

\* the entries a ledger holds where amounts, categories and files of every
\* kind are explored
MaxLedger == 3

RoomLedger == Len(incomes) + Len(expenses) < MaxLedger

Op(op, amount, out) == [op |-> op, amount |-> amount, out |-> out]

CsvStart == [exc |-> "none", missing |-> <<>>, incomes |-> <<>>, expenses |-> <<>>]

\* a call of a date helper: the text given, the base month it fell back on
\* and what it returned
DateCall(fn, text, base, res) == [fn |-> fn, text |-> text, base |-> base, res |-> res]

\* meta_year and meta_month exist in the mobile app only
NoMeta == [year |-> 0, month |-> 0]

NoCall == DateCall("none", <<>>, None, [exc |-> "none", date |-> None, err |-> None])

CsvIdle ==
  /\ csv_pc = "idle"
  /\ csv_fieldnames = <<>>
  /\ csv_rows = <<>>
  /\ csv_acc = CsvStart

\* The ledger of a CLI run is BudgetMonth(month=args.month) (line 324); the
\* GUI starts with BudgetMonth(), takes the month of the preferences file if
\* it has one (lines 56, 850-859) and sets the Month field to today's month
\* (line 948).
InitLedger(args_months, gui_months) ==
  /\ app \in {"cli", "gui"}
  /\ incomes = <<>>
  /\ expenses = <<>>
  /\ last = Op("init", NoneArg, "ok")
  /\ call = NoCall
  /\ meta = NoMeta
  /\ \/ app = "cli" /\ month \in args_months /\ var_month = <<>>
     \/ app = "gui" /\ month \in gui_months /\ var_month = TodayYm

\* ------------------------------------------------------------------ BudgetMonth

\* add_income placing the new entry at the front
add_income_at_front(name, amount, date) ==
  /\ Room(1)
  /\ incomes' = <<NewIncome(month, name, amount, date)>> \o incomes
  /\ last' = Op("add_income", amount, "ok")
  /\ UNCHANGED <<app, month, expenses, var_month, csv, call, meta>>

add_income(name, amount, date) ==
  /\ Room(1)
  /\ incomes' = Append(incomes, NewIncome(month, name, amount, date))
  /\ last' = Op("add_income", amount, "ok")
  /\ UNCHANGED <<app, month, expenses, var_month, csv, call, meta>>

add_expense(name, amount, category, date) ==
  /\ Room(1)
  /\ expenses' = Append(expenses, NewExpense(month, name, amount, category, date))
  /\ last' = Op("add_expense", amount, "ok")
  /\ UNCHANGED <<app, month, incomes, var_month, csv, call, meta>>

\* main() with --input (lines 324-333): the parsed entries extend the lists
\* of the new ledger; an exception of read_csv ends the run
main_input(file) ==
  \E r \in {read_csv(file)} :
      /\ app = "cli"
      /\ last.op = "init"
      /\ Len(r.incomes) + Len(r.expenses) <= MaxEntries
      /\ IF r.exc # "none"
         THEN /\ last' = Op("main", NoneArg, r.exc)
              /\ UNCHANGED <<incomes, expenses>>
         ELSE /\ incomes' = incomes \o r.incomes
              /\ expenses' = expenses \o r.expenses
              /\ last' = Op("main", NoneArg, "ok")
      /\ UNCHANGED <<app, month, var_month, csv, call, meta>>

\* ------------------------------------------------------------------ interactive_collect

\* _ask_amount when the user types lines, one per prompt: the first line that
\* float() takes and that is not negative; "waiting" when every line was
\* refused and the prompt is shown again
RECURSIVE _ask_amount(_)
_ask_amount(lines) ==
  IF lines = <<>> THEN [k |-> "waiting", n |-> 0, d |-> 1]
  ELSE LET value == ParseFloat(RemoveCommas(Strip(Head(lines))))
       IN  IF value = ValueError \/ FLt(value, Zero)
           THEN _ask_amount(Tail(lines))
           ELSE value

\* One pass of the income loop (lines 242-248): a name that is not blank,
\* the amount and the date asked for, the entry added; an exception of
\* _ask_date ends the run
interactive_income(name_line, amount_lines, date_line) ==
  LET amount == _ask_amount(amount_lines)
      date == _ask_date(month, date_line)
  IN  /\ app = "cli"
      /\ last.op \in {"init", "interactive_income"}
      /\ last.out = "ok"
      /\ Strip(name_line) # <<>>
      /\ amount.k # "waiting"
      /\ call' = DateCall("_ask_date", date_line, month, date)
      /\ IF date.exc # "none"
         THEN /\ last' = Op("interactive_income", TextArg(Head(amount_lines)), date.exc)
              /\ UNCHANGED incomes
         ELSE /\ Room(1)
              /\ incomes' = Append(incomes, NewIncome(month, Strip(name_line),
                                                      FloatArg(amount), date.date))
              /\ last' = Op("interactive_income", TextArg(Head(amount_lines)), "ok")
      /\ UNCHANGED <<app, month, expenses, var_month, csv, meta>>

\* One pass of the expense loop (lines 251-258)
interactive_expense(name_line, category_line, amount_lines, date_line) ==
  LET amount == _ask_amount(amount_lines)
      date == _ask_date(month, date_line)
  IN  /\ app = "cli"
      /\ last.op \in {"init", "interactive_income", "interactive_expense"}
      /\ last.out = "ok"
      /\ Strip(name_line) # <<>>
      /\ amount.k # "waiting"
      /\ call' = DateCall("_ask_date", date_line, month, date)
      /\ IF date.exc # "none"
         THEN /\ last' = Op("interactive_expense", TextArg(Head(amount_lines)), date.exc)
              /\ UNCHANGED expenses
         ELSE /\ Room(1)
              /\ expenses' = Append(expenses,
                                    NewExpense(month, Strip(name_line), FloatArg(amount),
                                               Or(Strip(category_line), T_Uncategorized),
                                               date.date))
              /\ last' = Op("interactive_expense", TextArg(Head(amount_lines)), "ok")
      /\ UNCHANGED <<app, month, incomes, var_month, csv, meta>>

\* ------------------------------------------------------------------ BudgetApp

\* update_report() line 745: the Month field, if not blank, becomes bm.month
SyncedMonth(vm, m) == Or(Strip(vm), m)

\* the user edits the Month field (the Entry bound to var_month, line 109)
EditMonth(text) ==
  /\ app = "gui"
  /\ var_month' = text
  /\ last' = Op("edit_month", NoneArg, "ok")
  /\ UNCHANGED <<app, month, incomes, expenses, csv, call, meta>>

_on_month_changed ==
  /\ app = "gui"
  /\ month' = SyncedMonth(var_month, Or(Strip(var_month), None))
  /\ last' = Op("_on_month_changed", NoneArg, "ok")
  /\ UNCHANGED <<app, incomes, expenses, var_month, csv, call, meta>>

update_report ==
  /\ app = "gui"
  /\ month' = SyncedMonth(var_month, month)
  /\ last' = Op("update_report", NoneArg, "ok")
  /\ UNCHANGED <<app, incomes, expenses, var_month, csv, call, meta>>

\* The amount check of BudgetApp.add_income / add_expense (lines 292-300):
\* the float, or ValueError for a text float() rejects or a negative number
FieldAmount(field) ==
  LET amt == ParseFloat(Strip(RemoveCommas(Or(field, T_0))))
  IN  IF amt = ValueError \/ FLt(amt, Zero) THEN ValueError ELSE amt

BudgetApp_add_income(name_field, amount_field, date_field) ==
  LET name == Strip(Or(name_field, T_Income))
      amt == FieldAmount(amount_field)
      nd == _normalize_date_input(Strip(Or(date_field, <<>>)), var_month)
  IN  /\ app = "gui"
      /\ IF amt = ValueError
         THEN /\ last' = Op("BudgetApp.add_income", TextArg(amount_field), "Invalid amount")
              /\ UNCHANGED <<month, incomes>>
         ELSE IF nd.exc # "none"
         THEN /\ last' = Op("BudgetApp.add_income", TextArg(amount_field), nd.exc)
              /\ UNCHANGED <<month, incomes>>
         ELSE IF nd.err # None
         THEN /\ last' = Op("BudgetApp.add_income", TextArg(amount_field), "Invalid date")
              /\ UNCHANGED <<month, incomes>>
         ELSE /\ Room(1)
              /\ incomes' = Append(incomes, NewIncome(month, name, FloatArg(amt), nd.date))
              /\ month' = SyncedMonth(var_month, month)
              /\ last' = Op("BudgetApp.add_income", TextArg(amount_field), "ok")
      /\ call' = IF amt = ValueError THEN call
                 ELSE DateCall("_normalize_date_input", Strip(Or(date_field, <<>>)),
                               var_month, nd)
      /\ UNCHANGED <<app, expenses, var_month, csv, meta>>

BudgetApp_add_expense(name_field, category_field, amount_field, date_field) ==
  LET name == Strip(Or(name_field, T_Expense))
      category == Strip(Or(category_field, T_Uncategorized))
      amt == FieldAmount(amount_field)
      nd == _normalize_date_input(Strip(Or(date_field, <<>>)), var_month)
  IN  /\ app = "gui"
      /\ IF amt = ValueError
         THEN /\ last' = Op("BudgetApp.add_expense", TextArg(amount_field), "Invalid amount")
              /\ UNCHANGED <<month, expenses>>
         ELSE IF nd.exc # "none"
         THEN /\ last' = Op("BudgetApp.add_expense", TextArg(amount_field), nd.exc)
              /\ UNCHANGED <<month, expenses>>
         ELSE IF nd.err # None
         THEN /\ last' = Op("BudgetApp.add_expense", TextArg(amount_field), "Invalid date")
              /\ UNCHANGED <<month, expenses>>
         ELSE /\ Room(1)
              /\ expenses' = Append(expenses,
                                    NewExpense(month, name, FloatArg(amt), category, nd.date))
              /\ month' = SyncedMonth(var_month, month)
              /\ last' = Op("BudgetApp.add_expense", TextArg(amount_field), "ok")
      /\ call' = IF amt = ValueError THEN call
                 ELSE DateCall("_normalize_date_input", Strip(Or(date_field, <<>>)),
                               var_month, nd)
      /\ UNCHANGED <<app, incomes, var_month, csv, meta>>

\* del seq[idx] for a 0-based idx
DeleteAt(seq, idx) == SubSeq(seq, 1, idx) \o SubSeq(seq, idx + 2, Len(seq))

Max(S) == CHOOSE x \in S : \A y \in S : y <= x

Min(S) == CHOOSE x \in S : \A y \in S : x <= y

\* the loop of remove_*_selected over the indices in ascending order
RECURSIVE RemoveAscending(_, _)
RemoveAscending(seq, sel) ==
  IF sel = {} THEN seq
  ELSE LET idx == Min(sel)
       IN  RemoveAscending(IF 0 <= idx /\ idx < Len(seq) THEN DeleteAt(seq, idx) ELSE seq,
                           sel \ {idx})

\* the loop of remove_*_selected (lines 348-351): the selected 0-based
\* indices in descending order, each deleted if it is in range
RECURSIVE RemoveSelected(_, _)
RemoveSelected(seq, sel) ==
  IF sel = {} THEN seq
  ELSE LET idx == Max(sel)
       IN  RemoveSelected(IF 0 <= idx /\ idx < Len(seq) THEN DeleteAt(seq, idx) ELSE seq,
                          sel \ {idx})

\* the tree view lists the entries in order, so the selection is a set of
\* positions of the list
remove_income_selected(sel) ==
  /\ app = "gui"
  /\ sel # {}
  /\ incomes' = RemoveSelected(incomes, sel)
  /\ month' = SyncedMonth(var_month, month)
  /\ last' = Op("remove_income_selected", NoneArg, "ok")
  /\ UNCHANGED <<app, expenses, var_month, csv, call, meta>>

remove_expense_selected(sel) ==
  /\ app = "gui"
  /\ sel # {}
  /\ expenses' = RemoveSelected(expenses, sel)
  /\ month' = SyncedMonth(var_month, month)
  /\ last' = Op("remove_expense_selected", NoneArg, "ok")
  /\ UNCHANGED <<app, incomes, var_month, csv, call, meta>>

\* clear_incomes / clear_expenses once the user has answered yes
clear_incomes ==
  /\ app = "gui"
  /\ incomes' = <<>>
  /\ month' = SyncedMonth(var_month, month)
  /\ last' = Op("clear_incomes", NoneArg, "ok")
  /\ UNCHANGED <<app, expenses, var_month, csv, call, meta>>

clear_expenses ==
  /\ app = "gui"
  /\ expenses' = <<>>
  /\ month' = SyncedMonth(var_month, month)
  /\ last' = Op("clear_expenses", NoneArg, "ok")
  /\ UNCHANGED <<app, incomes, var_month, csv, call, meta>>

\* new_budget once the user has agreed to discard the entries
new_budget ==
  /\ app = "gui"
  /\ incomes' = <<>>
  /\ expenses' = <<>>
  /\ var_month' = <<>>
  /\ month' = SyncedMonth(<<>>, None)
  /\ last' = Op("new_budget", NoneArg, "ok")
  /\ UNCHANGED <<app, csv, call, meta>>

\* open_csv emptying both lists before the file is read
open_csv_clearing_first(file) ==
  \E r \in {read_csv(file)} :
  \E inferred \in {_infer_month_from_entries(r.incomes, r.expenses)} :
      /\ app = "gui"
      /\ Len(r.incomes) + Len(r.expenses) <= MaxEntries
      /\ IF r.exc # "none"
         THEN /\ last' = Op("open_csv", NoneArg, "Failed to open CSV")
              /\ incomes' = <<>>
              /\ expenses' = <<>>
              /\ UNCHANGED <<month, var_month>>
         ELSE /\ incomes' = r.incomes
              /\ expenses' = r.expenses
              /\ IF inferred.exc # "none"
                 THEN /\ last' = Op("open_csv", NoneArg, inferred.exc)
                      /\ UNCHANGED <<month, var_month>>
                 ELSE /\ var_month' = IF Truthy(inferred.val) THEN inferred.val ELSE var_month
                      /\ month' = SyncedMonth(var_month',
                                              IF Truthy(inferred.val) THEN inferred.val ELSE month)
                      /\ last' = Op("open_csv", NoneArg, "ok")
      /\ UNCHANGED <<app, csv, call, meta>>

\* open_csv with a file chosen: a failing read_csv leaves the ledger alone;
\* otherwise both lists are replaced, the inferred month (if any) goes to the
\* Month field and to bm.month, and the report is updated. An exception of
\* _infer_month_from_entries ends the handler after the lists are replaced.
open_csv(file) ==
  \E r \in {read_csv(file)} :
  \E inferred \in {_infer_month_from_entries(r.incomes, r.expenses)} :
      /\ app = "gui"
      /\ Len(r.incomes) + Len(r.expenses) <= MaxEntries
      /\ IF r.exc # "none"
         THEN /\ last' = Op("open_csv", NoneArg, "Failed to open CSV")
              /\ UNCHANGED <<month, incomes, expenses, var_month>>
         ELSE /\ incomes' = r.incomes
              /\ expenses' = r.expenses
              /\ IF inferred.exc # "none"
                 THEN /\ last' = Op("open_csv", NoneArg, inferred.exc)
                      /\ UNCHANGED <<month, var_month>>
                 ELSE /\ var_month' = IF Truthy(inferred.val) THEN inferred.val ELSE var_month
                      /\ month' = SyncedMonth(var_month',
                                              IF Truthy(inferred.val) THEN inferred.val ELSE month)
                      /\ last' = Op("open_csv", NoneArg, "ok")
      /\ UNCHANGED <<app, csv, call, meta>>

\* save_csv with a path chosen writes save_csv(month, incomes, expenses)
BudgetApp_save_csv ==
  /\ app = "gui"
  /\ last' = Op("save_csv", NoneArg, "ok")
  /\ UNCHANGED <<app, month, incomes, expenses, var_month, csv, call, meta>>

\* ------------------------------------------------------------------ date helpers, called alone

\* self._normalize_date_input(text) in the GUI as it stands
_normalize_date_input_call(text) ==
  /\ app = "gui"
  /\ call' = DateCall("_normalize_date_input", text, var_month,
                      _normalize_date_input(text, var_month))
  /\ UNCHANGED <<ledger, csv, meta>>

\* _ask_date(default=bm.month) in the CLI, the user typing line
_ask_date_call(line) ==
  /\ app = "cli"
  /\ call' = DateCall("_ask_date", line, month, _ask_date(month, line))
  /\ UNCHANGED <<ledger, csv, meta>>

\* ------------------------------------------------------------------ read_csv, row by row

MaxRows == 2

\* lines 145-150: the header is read and checked
csv_open(fieldnames) ==
  /\ csv_pc = "idle"
  /\ csv_fieldnames' = fieldnames
  /\ IF MissingHeaders(fieldnames) # {}
     THEN /\ csv_pc' = "raised"
          /\ csv_acc' = [csv_acc EXCEPT !.exc = "MissingColumns",
                                        !.missing = Sorted(MissingHeaders(fieldnames))]
     ELSE /\ csv_pc' = "rows"
          /\ UNCHANGED csv_acc
  /\ UNCHANGED <<csv_rows, ledger, call, meta>>

\* lines 151-179: one iteration of the loop, on the next row of the file
\* (csv.DictReader passes over a row without fields)
csv_next_row(fields) ==
  /\ csv_pc = "rows"
  /\ Len(csv_rows) < MaxRows
  /\ csv_rows' = Append(csv_rows, fields)
  /\ csv_acc' = IF fields = <<>> THEN csv_acc ELSE ReadRow(csv_fieldnames, fields, csv_acc)
  /\ csv_pc' = IF csv_acc'.exc # "none" THEN "raised" ELSE "rows"
  /\ UNCHANGED <<csv_fieldnames, ledger, call, meta>>

\* line 180: the file is exhausted
csv_return ==
  /\ csv_pc = "rows"
  /\ csv_pc' = "returned"
  /\ UNCHANGED <<csv_fieldnames, csv_rows, csv_acc, ledger, call, meta>>

\* ------------------------------------------------------------------ mobile model

\* parse_amount(value): 0.0 for None; otherwise float(str(value).strip()),
\* where str() of a float is the repr that float() reads back to the same
\* float; 0.0 when float() raises
parse_amount(value) ==
  CASE value.t = "none" -> Zero
    [] value.t = "float" -> value.f
    [] OTHER -> LET v == ParseFloat(Strip(value.s)) IN IF IsException(v) THEN Zero ELSE v

\* A record of the mobile app's lists: a dict with the keys name, amount,
\* category (expenses) and date; amount is the value as stored (a float, a
\* text or None), category and date are None when the key is absent
Rec(name, amount, category, date) ==
  [name |-> name, amount |-> amount, category |-> category, date |-> date]

\* sum(parse_amount(r.get("amount", 0)) for r in recs)
RECURSIVE SumParsed(_)
SumParsed(recs) ==
  IF recs = <<>> THEN Zero
  ELSE FAdd(SumParsed(SubSeq(recs, 1, Len(recs) - 1)), parse_amount(recs[Len(recs)].amount))

totals(inc, exp) ==
  LET inc_total == SumParsed(inc)
      exp_total == SumParsed(exp)
      profit == FSub(inc_total, exp_total)
      margin == IF FGt(inc_total, Zero) THEN Pct(profit, inc_total) ELSE Zero
  IN  [income_total |-> inc_total, expense_total |-> exp_total,
       profit |-> profit, profit_margin |-> margin]

\* by_cat of the mobile expenses_by_category (lines 27-30)
RECURSIVE MobileBuckets(_)
MobileBuckets(exp) ==
  IF exp = <<>> THEN EmptyDict
  ELSE LET r == exp[Len(exp)]
       IN  AddTo(MobileBuckets(SubSeq(exp, 1, Len(exp) - 1)),
                 Or(Strip(Or(r.category, T_Uncategorized)), T_Uncategorized),
                 parse_amount(r.amount))

\* the keys of by_cat in the order they were inserted
RECURSIVE MobileKeys(_)
MobileKeys(exp) ==
  IF exp = <<>> THEN <<>>
  ELSE LET before == MobileKeys(SubSeq(exp, 1, Len(exp) - 1))
           r == exp[Len(exp)]
           cat == Or(Strip(Or(r.category, T_Uncategorized)), T_Uncategorized)
       IN  IF \E i \in 1..Len(before) : before[i] = cat THEN before ELSE Append(before, cat)

\* sum(by_cat.values())
RECURSIVE SumValues(_, _)
SumValues(d, keys) ==
  IF keys = <<>> THEN Zero
  ELSE FAdd(SumValues(d, SubSeq(keys, 1, Len(keys) - 1)), d[keys[Len(keys)]])

\* (-a.amount, a.category) < (-b.amount, b.category) on tuples
RowLt(a, b) ==
  IF a.amount = b.amount /\ a.amount.k # "nan" THEN TextLt(a.category, b.category)
  ELSE FGt(a.amount, b.amount)

\* sorted(rows, key=...): stable, the rows that no other row precedes first
RECURSIVE SortRows(_)
SortRows(rows) ==
  IF rows = <<>> THEN <<>>
  ELSE LET Minimal(i) == \A j \in 1..Len(rows) : ~RowLt(rows[j], rows[i])
           i == CHOOSE i \in 1..Len(rows) : Minimal(i) /\ \A j \in 1..(i - 1) : ~Minimal(j)
       IN  <<rows[i]>> \o SortRows(SubSeq(rows, 1, i - 1) \o SubSeq(rows, i + 1, Len(rows)))

\* the mobile expenses_by_category(expenses): the rows category, amount,
\* percent (of the sum of the amounts, 1.0 taken for a sum of zero), largest
\* amount first
mobile_expenses_by_category(exp) ==
  LET by_cat == MobileBuckets(exp)
      keys == MobileKeys(exp)
      sum == SumValues(by_cat, keys)
      total == IF sum = Zero THEN Fin(1, 1) ELSE sum
  IN  SortRows([i \in 1..Len(keys) |->
                 [category |-> keys[i], amount |-> by_cat[keys[i]],
                  percent |-> Pct(by_cat[keys[i]], total)]])

\* ------------------------------------------------------------------ BudgetMobile

\* datetime.now() at startup: meta_year and meta_month
TodayMeta == [year |-> ParseInt(Slice(TodayYmd, 0, 4)), month |-> ParseInt(Slice(TodayYmd, 5, 7))]

\* str(n) of an integer
Str(n) == IF n < 0 THEN <<"-">> \o IntToText(-n) ELSE IntToText(n)

\* t.zfill(2) of a text that str() gave for an integer
Zfill2(t) == IF Len(t) >= 2 THEN t ELSE <<"0">> \o t

\* _compose_date(day); day = 0 stands for None as well, both are falsy
_compose_date(day) ==
  IF day = 0 THEN None
  ELSE Str(meta.year) \o <<"-">> \o Zfill2(Str(meta.month)) \o <<"-">> \o Zfill2(Str(day))

\* int((value or "").strip()) of a day selection, 0 (None) when int() raises
DayOf(value) ==
  LET d == IntOf(Strip(Or(value, <<>>))) IN IF d.ok THEN d.v ELSE 0

\* bool(x) of a float
FloatTruthy(x) == x # Zero

\* BudgetMobile.add_income with the texts of the name and amount inputs and
\* the value of the day selection
BudgetMobile_add_income(name_value, amount_value, day_value) ==
  LET name == Strip(Or(name_value, <<>>))
      amt == parse_amount(TextArg(amount_value))
      date_str == _compose_date(DayOf(day_value))
  IN  /\ app = "mobile"
      /\ IF name # <<>> \/ FloatTruthy(amt)
         THEN /\ incomes' = Append(incomes, Rec(name, FloatArg(amt), None, date_str))
              /\ last' = Op("BudgetMobile.add_income", TextArg(amount_value), "ok")
         ELSE /\ last' = Op("BudgetMobile.add_income", TextArg(amount_value), "ignored")
              /\ UNCHANGED incomes
      /\ UNCHANGED <<app, month, expenses, var_month, csv, call, meta>>

\* BudgetMobile.add_expense with the texts of the name, custom category and
\* amount inputs and the values of the category and day selections
BudgetMobile_add_expense(name_value, custom_value, select_value, amount_value, day_value) ==
  LET name == Strip(Or(name_value, <<>>))
      custom_cat == Strip(Or(custom_value, <<>>))
      cat == Or(custom_cat, Strip(Or(select_value, T_Uncategorized)))
      amt == parse_amount(TextArg(amount_value))
      date_str == _compose_date(DayOf(day_value))
  IN  /\ app = "mobile"
      /\ IF name # <<>> \/ cat # <<>> \/ FloatTruthy(amt)
         THEN /\ expenses' = Append(expenses, Rec(name, FloatArg(amt), cat, date_str))
              /\ last' = Op("BudgetMobile.add_expense", TextArg(amount_value), "ok")
         ELSE /\ last' = Op("BudgetMobile.add_expense", TextArg(amount_value), "ignored")
              /\ UNCHANGED expenses
      /\ UNCHANGED <<app, month, incomes, var_month, csv, call, meta>>

\* A value of the loaded file's meta: an integer, a text, or absent
JsonInt(i) == [t |-> "int", i |-> i, s |-> <<>>]
JsonText(s) == [t |-> "str", i |-> 0, s |-> s]
JsonAbsent == [t |-> "absent", i |-> 0, s |-> <<>>]

\* int(meta.get(key, current)); ok is FALSE when int() raises
MetaInt(v, current) ==
  CASE v.t = "int" -> [ok |-> TRUE, v |-> v.i]
    [] v.t = "str" -> IntOf(Strip(v.s))
    [] OTHER -> [ok |-> TRUE, v |-> current]

\* on_open with the file chosen: data.found is FALSE when the file cannot be
\* loaded; _deserialize(data) assigns meta_year, meta_month and the two lists
\* one after the other, and an exception on the way ends the handler with
\* "Open failed"
on_open(data) ==
  LET y == MetaInt(data.year, meta.year)
      m == MetaInt(data.month, meta.month)
  IN  /\ app = "mobile"
      /\ IF ~data.found \/ ~y.ok
         THEN /\ last' = Op("on_open", NoneArg, "Open failed")
              /\ UNCHANGED <<incomes, expenses, meta>>
         ELSE IF ~m.ok
         THEN /\ meta' = [meta EXCEPT !.year = y.v]
              /\ last' = Op("on_open", NoneArg, "Open failed")
              /\ UNCHANGED <<incomes, expenses>>
         ELSE /\ meta' = [year |-> y.v, month |-> m.v]
              /\ incomes' = data.incomes
              /\ expenses' = data.expenses
              /\ last' = Op("on_open", NoneArg, "ok")
      /\ UNCHANGED <<app, month, var_month, csv, call>>

\* on_new: today's year and month, both lists emptied
on_new ==
  /\ app = "mobile"
  /\ meta' = TodayMeta
  /\ incomes' = <<>>
  /\ expenses' = <<>>
  /\ last' = Op("on_new", NoneArg, "ok")
  /\ UNCHANGED <<app, month, var_month, csv, call>>

\* _read_date_controls (called by _serialize when the budget is saved) with
\* the texts of the year input and of the month selection: a text int()
\* refuses falls back to the current value, the month is clamped to 1..12,
\* a year outside 1900..3000 falls back to the current year
_read_date_controls(year_value, month_value) ==
  LET yi == IntOf(Strip(Or(year_value, <<>>)))
      mi == IntOf(Strip(Or(month_value, <<>>)))
      y == IF yi.ok THEN yi.v ELSE meta.year
      m == Max({1, Min({12, IF mi.ok THEN mi.v ELSE meta.month})})
  IN  /\ app = "mobile"
      /\ meta' = [year |-> IF y < 1900 \/ y > 3000 THEN meta.year ELSE y, month |-> m]
      /\ last' = Op("_read_date_controls", NoneArg, "ok")
      /\ UNCHANGED <<app, month, incomes, expenses, var_month, csv, call>>

\* use_today: the year and month of datetime.now()
use_today ==
  /\ app = "mobile"
  /\ meta' = TodayMeta
  /\ last' = Op("use_today", NoneArg, "ok")
  /\ UNCHANGED <<app, month, incomes, expenses, var_month, csv, call>>

\* ------------------------------------------------------------------ inputs

T_A == <<"A">>
T_B == <<"B">>
T_padA == <<" ", "A">>
T_F == <<"F">>
T_H == <<"H">>
T_abc == <<"a", "b", "c">>
T_blank == <<" ">>
T_Aug == <<"A", "u", "g">>
T_5000 == <<"5", "0", "0", "0">>
T_400 == <<"4", "0", "0">>
T_neg3 == <<"-", "3">>
T_nan == <<"n", "a", "n">>
T_0996 == <<"0", ".", "9", "9", "6">>
T_1comma500 == <<"1", ",", "5", "0", "0">>
T_2025 == <<"2", "0", "2", "5">>
T_8 == <<"8">>
T_5 == <<"5">>
T_31 == <<"3", "1">>
T_13 == <<"1", "3">>
T_ab == <<"a", "b">>
T_20a5 == <<"2", "0", "a", "5">>
D_2025_08_01 == <<"2", "0", "2", "5", "-", "0", "8", "-", "0", "1">>
D_2025_09 == <<"2", "0", "2", "5", "-", "0", "9">>
D_2025_02_31 == <<"2", "0", "2", "5", "-", "0", "2", "-", "3", "1">>

\* Arguments of BudgetMonth.add_income / add_expense
IncomeAmounts ==
  {FloatArg(Fin(5000, 1)), FloatArg(Fin(1, 8)), FloatArg(Fin(-5, 1)), FloatArg(NaN),
   TextArg(T_abc), NoneArg}

ExpenseAmounts == {FloatArg(Fin(400, 1)), FloatArg(Fin(-5, 1)), TextArg(T_neg3)}

Categories == {None, T_F, T_blank}

\* Texts of the GUI's amount fields
AmountFields == {T_5000, <<>>, T_neg3, T_abc, T_nan}

\* CSV files opened in the GUI or given to the CLI
FileNoDate ==
  << <<T_type, T_name, T_category, T_amount>>,
     <<T_income, T_A, <<>>, T_0996>>,
     <<T_expense, T_B, T_H, T_neg3>> >>

FileDated ==
  << <<T_type, T_name, T_category, T_amount, T_date>>,
     <<T_expense, <<>>, <<>>, T_400, D_2025_08_01>>,
     <<T_income, T_A, <<>>, T_abc, T_Aug>> >>

FileNoAmount == << <<T_type, T_name, T_category>>, <<T_income, T_A, <<>>>> >>

Files == {FileNoDate, FileDated, FileNoAmount}

\* the non-empty selections of a tree view that lists seq
Selections(seq) == SUBSET (0..(Len(seq) - 1)) \ {{}}

\* ------------------------------------------------------------------ specifications

\* The ledger under amounts and categories of every kind, dates left out
Init == InitLedger({None}, {TodayYm}) /\ CsvIdle

Next ==
  \/ RoomLedger /\ \E a \in IncomeAmounts : add_income(T_padA, a, None)
  \/ RoomLedger /\ \E a \in ExpenseAmounts, c \in Categories : add_expense(T_B, a, c, None)
  \/ \E f \in Files : main_input(f)
  \/ RoomLedger /\ \E a \in AmountFields : BudgetApp_add_income(T_A, a, <<>>)
  \/ RoomLedger /\ \E a \in AmountFields, c \in Categories :
                     BudgetApp_add_expense(T_B, c, a, <<>>)
  \/ \E sel \in Selections(incomes) : remove_income_selected(sel)
  \/ \E sel \in Selections(expenses) : remove_expense_selected(sel)
  \/ clear_incomes
  \/ clear_expenses
  \/ \E f \in Files : open_csv(f)
  \/ BudgetApp_save_csv

Spec == Init /\ [][Next]_vars

\* The ledger under Month field contents and dates of every kind, amounts
\* fixed: a CLI run with or without --month, the GUI with or without a month
\* in its preferences file
MonthTexts == {<<>>, T_Aug, D_2025_09}

DateFields == {<<>>, T_31, T_abc}

\* the entries a ledger holds under SpecDates
MaxDated == 2

RoomDated == Len(incomes) + Len(expenses) < MaxDated

InitDates == InitLedger({None, TodayYm}, {None, TodayYm}) /\ CsvIdle

NextDates ==
  \/ \E t \in MonthTexts : EditMonth(t)
  \/ _on_month_changed
  \/ update_report
  \/ new_budget
  \/ RoomDated /\ add_income(T_A, FloatArg(Fin(1, 8)), None)
  \/ RoomDated /\ \E d \in DateFields : BudgetApp_add_income(T_A, T_5000, d)
  \/ RoomDated /\ \E d \in DateFields : BudgetApp_add_expense(T_B, <<>>, T_400, d)
  \/ \E f \in {FileNoDate, FileDated} : main_input(f)
  \/ \E f \in {FileNoDate, FileDated} : open_csv(f)
  \/ BudgetApp_save_csv

SpecDates == InitDates /\ [][NextDates]_vars

\* read_csv on files of up to MaxRows rows under headers of every kind: the
\* saved layout, other letter cases, year/month/day columns, required
\* columns missing, an empty file
T_Type == <<"T", "y", "p", "e">>
T_NAME == <<"N", "A", "M", "E">>
T_Amount == <<"A", "m", "o", "u", "n", "t">>
T_padtype == <<" ", "t", "y", "p", "e">>

Headers ==
  { SaveHeader,
    <<T_Type, T_NAME, T_Amount>>,
    <<T_type, T_name, T_amount, T_year, T_month, T_day>>,
    <<T_type, T_name, T_category>>,
    <<T_name>>,
    <<T_padtype, T_name, T_amount>>,
    <<>> }

Rows ==
  { <<T_income, T_A, T_5000>>,
    <<T_expense, <<>>, T_abc>>,
    <<T_Income, T_A, T_5000>>,
    <<<<>>, T_A, T_5000>>,
    <<>>,
    <<T_expense, T_B, T_F, T_neg3, D_2025_08_01>>,
    <<T_income, T_A, T_5000, T_2025, T_8, T_5>>,
    <<T_expense, T_B, T_400, T_2025, T_ab>>,
    <<T_Income, T_A, T_5000, T_2025, T_ab>>,
    <<T_income, T_A, T_5000, T_20a5, T_8>>,
    <<T_income, T_A, T_5000, T_2025, T_8, T_5, T_F>> }

InitCsv == InitLedger({None}, {TodayYm}) /\ app = "cli" /\ CsvIdle

NextCsv ==
  \/ \E h \in Headers : csv_open(h)
  \/ \E r \in Rows : csv_next_row(r)
  \/ csv_return

SpecCsv == InitCsv /\ [][NextCsv]_vars

\* The date helpers under date texts and base months of every kind
T_32 == <<"3", "2">>
D_2025_02 == <<"2", "0", "2", "5", "-", "0", "2">>
D_2025_13 == <<"2", "0", "2", "5", "-", "1", "3">>
D_2025_08_32 == <<"2", "0", "2", "5", "-", "0", "8", "-", "3", "2">>
D_2025_0__01 == <<"2", "0", "2", "5", "-", "0", "-", "-", "0", "1">>
D_pad_2025_09 == <<" ">> \o D_2025_09
D_0999_08 == <<"0", "9", "9", "9", "-", "0", "8">>

DateTexts ==
  {<<>>, T_blank, T_0, T_5, T_31, T_32, T_abc, D_2025_09, D_pad_2025_09, D_2025_13,
   D_2025_08_01, D_2025_02_31, D_2025_08_32, D_2025_0__01}

BaseMonths == {None, D_2025_02, D_0999_08, T_Aug}

InitCalls == InitLedger(BaseMonths, {None}) /\ CsvIdle

NextCalls ==
  \/ \E t \in BaseMonths \ {None} : EditMonth(t)
  \/ new_budget
  \/ \E t \in DateTexts : _normalize_date_input_call(t)
  \/ \E t \in DateTexts : _ask_date_call(t)
  \/ RoomDated /\ \E d \in {T_5, T_32} : BudgetApp_add_income(T_A, T_5000, d)

SpecCalls == InitCalls /\ [][NextCalls]_vars

\* Entries typed into the GUI and into the CLI's prompts, with amounts and
\* dates that are refused among them
AmountLines == {<<T_400>>, <<T_neg3, T_400>>, <<T_abc, T_neg3, T_1comma500>>, <<T_nan>>}

EntryDates3 == {<<>>, T_abc, T_5}

InitEntry == InitLedger({None, TodayYm}, {TodayYm}) /\ CsvIdle

NextEntry ==
  \/ RoomDated /\ \E a \in IncomeAmounts : add_income(T_padA, a, None)
  \/ RoomDated /\ \E a \in ExpenseAmounts : add_expense(T_B, a, T_F, None)
  \/ RoomDated /\ \E a \in AmountFields, d \in EntryDates3 : BudgetApp_add_income(T_A, a, d)
  \/ RoomDated /\ \E a \in AmountFields, d \in EntryDates3 :
                    BudgetApp_add_expense(T_B, T_F, a, d)
  \/ RoomDated /\ \E l \in AmountLines, d \in EntryDates3 : interactive_income(T_A, l, d)
  \/ RoomDated /\ \E l \in AmountLines, d \in EntryDates3 :
                    interactive_expense(T_B, <<>>, l, d)

SpecEntry == InitEntry /\ [][NextEntry]_vars

\* The mobile app under names, amounts and loaded files of every kind
T_05 == <<"0", "5">>
T_2026 == <<"2", "0", "2", "6">>
T_Food == <<"F", "o", "o", "d">>

DataText ==
  [found |-> TRUE, year |-> JsonInt(2025), month |-> JsonText(T_8),
   incomes |-> <<Rec(T_A, TextArg(T_5000), None, None),
                 Rec(T_A, TextArg(T_neg3), None, D_2025_08_01)>>,
   expenses |-> <<Rec(T_B, TextArg(T_abc), T_F, None)>>]

DataNone ==
  [found |-> TRUE, year |-> JsonAbsent, month |-> JsonInt(13),
   incomes |-> <<Rec(T_A, NoneArg, None, None)>>,
   expenses |-> <<Rec(T_B, FloatArg(Fin(400, 1)), None, None),
                  Rec(T_B, TextArg(T_nan), T_blank, None)>>]

DataBadMonth == [DataText EXCEPT !.year = JsonInt(2024), !.month = JsonText(T_abc)]

DataMissing == [DataText EXCEPT !.found = FALSE]

MobileFiles == {DataText, DataNone, DataBadMonth, DataMissing}

InitMobile ==
  /\ app = "mobile"
  /\ month = None
  /\ var_month = <<>>
  /\ incomes = <<>>
  /\ expenses = <<>>
  /\ last = Op("init", NoneArg, "ok")
  /\ call = NoCall
  /\ meta = TodayMeta
  /\ CsvIdle

NextMobile ==
  \/ RoomLedger /\ \E n \in {<<>>, T_A}, a \in AmountFields :
                     BudgetMobile_add_income(n, a, T_05)
  \/ RoomLedger /\ \E c \in {<<>>, T_F}, a \in {T_400, T_neg3} :
                     BudgetMobile_add_expense(T_B, c, T_Food, a, T_31)
  \/ \E d \in MobileFiles : on_open(d)
  \/ on_new

SpecMobile == InitMobile /\ [][NextMobile]_vars

\* The worked example: incomes of 5000 and of an amount that is blank, not a
\* number or None, expenses of 1500 for Housing and 400 for Food, added in
\* any order
T_Housing == <<"H", "o", "u", "s", "i", "n", "g">>

ExampleIncomes == {FloatArg(Fin(5000, 1)), TextArg(<<>>), TextArg(T_abc), NoneArg}

ExampleExpenses == {<<T_Housing, FloatArg(Fin(1500, 1))>>, <<T_Food, FloatArg(Fin(400, 1))>>}

InitExample == InitLedger({None}, {TodayYm}) /\ CsvIdle

NextExample ==
  \/ \E a \in ExampleIncomes : add_income(T_A, a, None)
  \/ \E e \in ExampleExpenses : add_expense(T_B, e[2], e[1], None)

SpecExample == InitExample /\ [][NextExample]_vars

\* Month inference when CSV files with dates of every kind are opened in the
\* GUI. The lists that were there before an open are replaced, so the files
\* are opened into an empty ledger.
D_2025_08_15 == <<"2", "0", "2", "5", "-", "0", "8", "-", "1", "5">>
D_2025_09_01 == <<"2", "0", "2", "5", "-", "0", "9", "-", "0", "1">>

InferDates == {<<>>, D_2025_08_01, D_2025_08_15, D_2025_09_01, D_2025_02_31}

\* the rows of a file opened under SpecInfer
MaxFileRows == 3

RECURSIVE DateSeqs(_)
DateSeqs(n) ==
  IF n = 0 THEN {<<>>} ELSE {Append(s, d) : s \in DateSeqs(n - 1), d \in InferDates}

\* a file with the given dates, income and expense rows alternating
FileOfDates(ds) ==
  << <<T_type, T_name, T_category, T_amount, T_date>> >>
    \o [i \in 1..Len(ds) |-> IF i % 2 = 1 THEN <<T_income, T_A, <<>>, T_5000, ds[i]>>
                                           ELSE <<T_expense, T_B, T_F, T_400, ds[i]>>]

InitInfer == InitLedger({None}, {None, TodayYm}) /\ app = "gui" /\ CsvIdle

NextInfer ==
  \/ \E t \in {<<>>, D_2025_09} : EditMonth(t)
  \/ new_budget
  \/ /\ incomes = <<>>
     /\ expenses = <<>>
     /\ \E n \in 0..MaxFileRows : \E ds \in DateSeqs(n) : open_csv(FileOfDates(ds))

SpecInfer == InitInfer /\ [][NextInfer]_vars

\* Removal in the GUI. A tree view can list more rows than the list has
\* entries (open_csv replaces the lists before it refreshes the views, and
\* an exception in between leaves the views as they were), so a selection
\* can hold a position past the end of the list.
StaleSelections(seq) == IF seq = <<>> THEN {} ELSE SUBSET (0..Len(seq)) \ {{}}

InitRemove == InitLedger({None}, {None, TodayYm}) /\ app = "gui" /\ CsvIdle

NextRemove ==
  \/ \E t \in {<<>>, D_2025_09} : EditMonth(t)
  \/ RoomLedger /\ \E n \in {T_A, T_B} : BudgetApp_add_income(n, T_5000, <<>>)
  \/ RoomLedger /\ \E n \in {T_A, T_B} : BudgetApp_add_expense(n, T_F, T_400, <<>>)
  \/ \E sel \in StaleSelections(incomes) : remove_income_selected(sel)
  \/ \E sel \in StaleSelections(expenses) : remove_expense_selected(sel)

SpecRemove == InitRemove /\ [][NextRemove]_vars

\* The core ledger under names and categories that are blank, padded or absent
NameInputs == {<<>>, T_blank, T_padA}

CategoryInputs == {None, <<>>, T_blank, T_F}

NextNames ==
  \/ RoomLedger /\ \E n \in NameInputs : add_income(n, FloatArg(Fin(5000, 1)), None)
  \/ RoomLedger /\ \E n \in NameInputs, c \in CategoryInputs :
                     add_expense(n, FloatArg(Fin(400, 1)), c, None)
  \/ \E f \in Files : main_input(f)

SpecNames == Init /\ [][NextNames]_vars

\* The GUI opening files that read_csv accepts and files it refuses, over
\* ledgers filled by hand
FileBadMonth ==
  << <<T_type, T_name, T_amount, T_year, T_month>>,
     <<T_income, T_A, T_5000, T_2025, T_8>>,
     <<T_expense, T_B, T_400, T_2025, T_ab>> >>

OpenFiles == Files \cup {FileBadMonth}

InitOpen == InitLedger({None}, {TodayYm}) /\ app = "gui" /\ CsvIdle

NextOpen ==
  \/ RoomLedger /\ \E a \in {T_5000, T_neg3} : BudgetApp_add_income(T_A, a, <<>>)
  \/ RoomLedger /\ \E a \in {T_400, T_abc} : BudgetApp_add_expense(T_B, T_F, a, <<>>)
  \/ EditMonth(D_2025_09)
  \/ \E f \in OpenFiles : open_csv(f)

SpecOpen == InitOpen /\ [][NextOpen]_vars

\* The mobile app's year and month under the date controls, Today, New and
\* loaded files, with entries dated from them
NextMeta ==
  \/ RoomDated /\ BudgetMobile_add_income(T_A, T_5000, T_05)
  \/ \E d \in MobileFiles : on_open(d)
  \/ on_new
  \/ \E y \in {T_2026, T_5}, m \in {T_05, T_13, T_abc} : _read_date_controls(y, m)
  \/ use_today

SpecMeta == InitMobile /\ [][NextMeta]_vars

\* ------------------------------------------------------------------ properties

Entries == {incomes[i] : i \in 1..Len(incomes)} \cup
           {[name |-> expenses[i].name, amount |-> expenses[i].amount, date |-> expenses[i].date] :
              i \in 1..Len(expenses)}

LastIncome == incomes[Len(incomes)]

LastExpense == expenses[Len(expenses)]

\* C1: every income entry and every expense entry of the ledger has an
\* amount >= 0, whatever was passed to add_income / add_expense or stood in
\* an imported CSV file (negative numbers, NaN, text, None), and after
\* removals and clears.
C1_AmountsNonNegative == \A e \in Entries : FLe(Zero, e.amount)

\* C1 witness: add_income was called with a negative number, NaN or a text
\* that is no number, and the entry it stored has the amount 0.0
C1_Witness ==
  /\ last.op = "add_income"
  /\ last.amount \in {FloatArg(Fin(-5, 1)), FloatArg(NaN), TextArg(T_abc)}
  /\ LastIncome.amount = Zero

\* the sum of the amounts of the entries at the positions idx of seq
RECURSIVE SumAt(_, _)
SumAt(seq, idx) ==
  IF idx = {} THEN Zero
  ELSE LET i == CHOOSE j \in idx : TRUE IN FAdd(seq[i].amount, SumAt(seq, idx \ {i}))

\* C2: after any sequence of additions, removals of selected entries and
\* clears, total_income() is the sum of the amounts of the incomes now in the
\* ledger, total_expenses() that of the expenses, and net() their difference.
C2_TotalsAreSums ==
  /\ total_income(incomes, expenses) = SumAt(incomes, DOMAIN incomes)
  /\ total_expenses(incomes, expenses) = SumAt(expenses, DOMAIN expenses)
  /\ net(incomes, expenses) =
       FSub(SumAt(incomes, DOMAIN incomes), SumAt(expenses, DOMAIN expenses))

\* C2 witness: selected incomes were removed, incomes and expenses remain,
\* and the two totals differ
C2_Witness ==
  /\ last.op = "remove_income_selected"
  /\ incomes # <<>>
  /\ expenses # <<>>
  /\ FGt(total_income(incomes, expenses), total_expenses(incomes, expenses))
  /\ FGt(total_expenses(incomes, expenses), Zero)

\* C3: profit_margin() never raises, returns exactly 0.0 when
\* total_income() <= 0, and otherwise returns net() / total_income() * 100
\* (stated without the division: the value times the income is net * 100).
C3_ProfitMargin ==
  LET pm == profit_margin(incomes, expenses)
      ti == total_income(incomes, expenses)
  IN  /\ pm.exc = "none"
      /\ FLe(ti, Zero) => pm.val = Zero
      /\ ~FLe(ti, Zero) => FMul(pm.val, ti) = FMul(net(incomes, expenses), Hundred)

\* C3 witness: expenses above zero and no income at all, margin 0.0
C3_Witness ==
  /\ incomes = <<>>
  /\ FGt(total_expenses(incomes, expenses), Zero)
  /\ profit_margin(incomes, expenses) = Returned(Zero)

ExpenseCategories == {expenses[i].category : i \in 1..Len(expenses)}

AllZero(d) == \A c \in DOMAIN d : d[c] = Zero

\* C4: expenses_by_category(), the two percentage mappings and the three
\* breakdown mappings of to_dict() all have the categories of the current
\* expenses as their key set, and a percentage mapping is 0.0 everywhere
\* when its base (total income, total expenses) is <= 0.
C4_SameKeys ==
  LET by_cat == expenses_by_category(incomes, expenses)
      pi == expense_percentages_by_category(incomes, expenses, T_income)
      pe == expense_percentages_by_category(incomes, expenses, T_expenses)
      td == to_dict(month, incomes, expenses)
  IN  /\ pi.exc = "none" /\ pe.exc = "none" /\ td.exc = "none"
      /\ DOMAIN by_cat = ExpenseCategories
      /\ DOMAIN pi.val = ExpenseCategories
      /\ DOMAIN pe.val = ExpenseCategories
      /\ DOMAIN td.val.breakdown.by_category = ExpenseCategories
      /\ DOMAIN td.val.breakdown.percent_of_income = ExpenseCategories
      /\ DOMAIN td.val.breakdown.percent_of_expenses = ExpenseCategories
      /\ FLe(total_income(incomes, expenses), Zero) => AllZero(pi.val)
      /\ FLe(total_expenses(incomes, expenses), Zero) => AllZero(pe.val)

\* C4 witness: expenses of two categories, one of them holding only a zero
\* amount, and no income: the percentages of income are all 0.0, those of
\* expenses are not
C4_Witness ==
  /\ Cardinality(ExpenseCategories) = 2
  /\ \E c \in ExpenseCategories : expenses_by_category(incomes, expenses)[c] = Zero
  /\ total_income(incomes, expenses) = Zero
  /\ AllZero(expense_percentages_by_category(incomes, expenses, T_income).val)
  /\ ~AllZero(expense_percentages_by_category(incomes, expenses, T_expenses).val)

\* what read_csv returns for the file BudgetApp.save_csv writes for the ledger
RoundTrip == read_csv(save_csv(month, incomes, expenses))

\* two dates are the same date, or both say that there is none
SameDate(a, b) == Or(a, <<>>) = Or(b, <<>>)

\* C5 as claimed: once save_csv has written the ledger, read_csv of that file
\* returns the same entries in the same order, each with the same name, the
\* amount to 2 decimals, the same category and the same date.
C5_RoundTripIdentical ==
  last.op = "save_csv" =>
    \A r \in {RoundTrip} :
      /\ r.exc = "none"
      /\ Len(r.incomes) = Len(incomes)
      /\ Len(r.expenses) = Len(expenses)
      /\ \A i \in DOMAIN incomes :
           /\ r.incomes[i].name = incomes[i].name
           /\ r.incomes[i].amount = Round2(incomes[i].amount)
           /\ SameDate(r.incomes[i].date, incomes[i].date)
      /\ \A i \in DOMAIN expenses :
           /\ r.expenses[i].name = expenses[i].name
           /\ r.expenses[i].amount = Round2(expenses[i].amount)
           /\ r.expenses[i].category = expenses[i].category
           /\ SameDate(r.expenses[i].date, expenses[i].date)

\* C5, amended: the same, except that an entry without a date is read back
\* with the ledger's month as its date, and with the empty text as its date
\* when the ledger has no month either.
C5_RoundTrip ==
  last.op = "save_csv" =>
    \A r \in {RoundTrip} :
      /\ r.exc = "none"
      /\ Len(r.incomes) = Len(incomes)
      /\ Len(r.expenses) = Len(expenses)
      /\ \A i \in DOMAIN incomes :
           /\ r.incomes[i].name = incomes[i].name
           /\ r.incomes[i].amount = Round2(incomes[i].amount)
           /\ r.incomes[i].date = Or(incomes[i].date, Or(month, <<>>))
      /\ \A i \in DOMAIN expenses :
           /\ r.expenses[i].name = expenses[i].name
           /\ r.expenses[i].amount = Round2(expenses[i].amount)
           /\ r.expenses[i].category = expenses[i].category
           /\ r.expenses[i].date = Or(expenses[i].date, Or(month, <<>>))

\* C5 witness: save_csv has written a ledger with a month that holds an
\* income without a date and an expense with a day-level date; the income is
\* read back with the month as its date, the expense with its own date
C5_Witness ==
  /\ last.op = "save_csv"
  /\ Truthy(month)
  /\ \E i \in DOMAIN incomes :
       /\ incomes[i].date = None
       /\ RoundTrip.incomes[i].date = month
       /\ RoundTrip.incomes[i].amount # incomes[i].amount
  /\ \E i \in DOMAIN expenses :
       /\ Len(expenses[i].date) = 10
       /\ RoundTrip.expenses[i].date = expenses[i].date

\* a YYYY-MM text with the month in 1..12
IsYearMonth(d) ==
  /\ Len(d) = 7
  /\ IsDigit(SubSeq(d, 1, 4))
  /\ d[5] = "-"
  /\ IsDigit(SubSeq(d, 6, 7))
  /\ ParseInt(SubSeq(d, 6, 7)) \in 1..12

\* a YYYY-MM-DD text with the month in 1..12 and the day in 1..31
IsYearMonthDay(d) ==
  /\ Len(d) = 10
  /\ IsYearMonth(SubSeq(d, 1, 7))
  /\ d[8] = "-"
  /\ IsDigit(SubSeq(d, 9, 10))
  /\ ParseInt(SubSeq(d, 9, 10)) \in 1..31

\* C9 as claimed: every entry of the ledger has a date that is absent, a
\* valid YYYY-MM text or a valid YYYY-MM-DD text.
C9_DatesWellFormed ==
  \A e \in Entries : ~Truthy(e.date) \/ IsYearMonth(e.date) \/ IsYearMonthDay(e.date)

\* the entries a step has put behind those of old
Placed(old, new) ==
  IF Len(new) > Len(old) /\ SubSeq(new, 1, Len(old)) = old
  THEN {new[i] : i \in (Len(old) + 1)..Len(new)}
  ELSE {}

\* C10 as claimed: every entry that add_income, add_expense (called directly
\* or from the GUI) or the CLI's CSV import puts into a ledger whose month is
\* set carries a date, and add_income called without a date stores the
\* ledger's month as the date.
C10_DatedWhenMonthSet ==
  [][/\ (/\ last'.op \in {"add_income", "add_expense", "BudgetApp.add_income",
                          "BudgetApp.add_expense", "main"}
         /\ Truthy(month))
        => /\ \A e \in Placed(incomes, incomes') : Truthy(e.date)
           /\ \A e \in Placed(expenses, expenses') : Truthy(e.date)
     /\ last'.op = "add_income" => \A e \in Placed(incomes, incomes') : e.date = month
    ]_vars

\* the data rows read so far whose type column holds t
RowsOfType(t) ==
  SelectSeq(csv_rows, LAMBDA f : f # <<>> /\ RowGet(csv_fieldnames, f, T_type) = t)

\* C6 as claimed: under a header that has type, name and amount, read_csv
\* never raises because of a data row, whatever its fields are and however
\* many it has, and every row of type income or expense has yielded an entry.
C6_RowsNeverAbort ==
  (csv_pc # "idle" /\ csv_acc.exc # "MissingColumns") =>
     /\ csv_pc # "raised"
     /\ Len(csv_acc.incomes) = Len(RowsOfType(T_income))
     /\ Len(csv_acc.expenses) = Len(RowsOfType(T_expense))

\* a and b are the same text up to the case of the letters
SameIgnoringCase(a, b) ==
  /\ Len(a) = Len(b)
  /\ \A i \in 1..Len(a) :
       \/ a[i] = b[i]
       \/ \E k \in 1..Len(UpperChars) :
            {a[i], b[i]} = {UpperChars[k], LowerChars[k]}

\* the required fields that no column of the header spells, in any case
Absent ==
  {k \in {T_type, T_name, T_amount} :
     \A i \in 1..Len(csv_fieldnames) : ~SameIgnoringCase(csv_fieldnames[i], k)}

\* C7: once the header is read, read_csv has failed with the missing-columns
\* error exactly if a required field (type, name, amount, in any letter
\* case) is absent from the header; the error names exactly the absent
\* fields, each once, and no row was parsed and no entry built.
C7_MissingColumns ==
  csv_pc # "idle" =>
     /\ (csv_acc.exc = "MissingColumns") = (Absent # {})
     /\ csv_acc.exc = "MissingColumns" =>
          /\ csv_pc = "raised"
          /\ {csv_acc.missing[i] : i \in 1..Len(csv_acc.missing)} = Absent
          /\ Len(csv_acc.missing) = Cardinality(Absent)
          /\ csv_rows = <<>>
          /\ csv_acc.incomes = <<>>
          /\ csv_acc.expenses = <<>>

\* C7 witness: the header type, name, category has been read and read_csv
\* has failed naming ["amount"]
C7_Witness ==
  /\ csv_pc = "raised"
  /\ csv_fieldnames = <<T_type, T_name, T_category>>
  /\ csv_acc.exc = "MissingColumns"
  /\ csv_acc.missing = <<T_amount>>

\* C8 as claimed: a row whose type is neither income nor expense adds no
\* entry and raises no error; a row of type income adds exactly one income
\* at the end of the incomes, a row of type expense exactly one expense at
\* the end of the expenses.
C8_OtherTypesSkipped ==
  [][(csv_pc = "rows" /\ Len(csv_rows') = Len(csv_rows) + 1
        /\ csv_rows'[Len(csv_rows')] # <<>>) =>
       LET t == RowGet(csv_fieldnames, csv_rows'[Len(csv_rows')], T_type)
       IN  /\ csv_acc'.exc = "none"
           /\ t \notin {T_income, T_expense} => csv_acc' = csv_acc
           /\ t = T_income =>
                /\ Len(csv_acc'.incomes) = Len(csv_acc.incomes) + 1
                /\ SubSeq(csv_acc'.incomes, 1, Len(csv_acc.incomes)) = csv_acc.incomes
                /\ csv_acc'.expenses = csv_acc.expenses
           /\ t = T_expense =>
                /\ Len(csv_acc'.expenses) = Len(csv_acc.expenses) + 1
                /\ SubSeq(csv_acc'.expenses, 1, Len(csv_acc.expenses)) = csv_acc.expenses
                /\ csv_acc'.incomes = csv_acc.incomes
    ]_vars

\* C11 as claimed: a date text that is a valid YYYY-MM (month in 1..12) or
\* YYYY-MM-DD (month in 1..12, day in 1..31, the day not checked against the
\* month) is returned unchanged, without error, by _normalize_date_input and
\* by _ask_date.
C11_ValidReturnedUnchanged ==
  (/\ call.fn \in {"_normalize_date_input", "_ask_date"}
   /\ IsYearMonth(call.text) \/ IsYearMonthDay(call.text))
    => /\ call.res.exc = "none"
       /\ call.res.err = None
       /\ call.res.date = call.text

\* the last day of month m of year y
LastDay(y, m) ==
  IF m = 2
  THEN (IF y % 400 = 0 \/ (y % 4 = 0 /\ y % 100 # 0) THEN 29 ELSE 28)
  ELSE <<31, 0, 31, 30, 31, 30, 31, 31, 30, 31, 30, 31>>[m]

\* the base month of a call: the Month field if it is a valid YYYY-MM, else
\* today's month
BaseOf(c) == IF IsYearMonth(Strip(Or(c.base, <<>>))) THEN Strip(c.base) ELSE TodayYm

\* what the claim expects of _normalize_date_input for the day number in c
DayExpected(c) ==
  LET d == ParseInt(Strip(c.text))
      base == BaseOf(c)
  IN  IF 1 <= d /\ d <= 31
         /\ d <= LastDay(ParseInt(SubSeq(base, 1, 4)), ParseInt(SubSeq(base, 6, 7)))
      THEN /\ c.res.exc = "none"
           /\ c.res.err = None
           /\ c.res.date = base \o <<"-">> \o Pad2(d)
      ELSE /\ c.res.exc = "none"
           /\ c.res.err # None
           /\ c.res.date = None

\* C12 as claimed: for a date text that is a whole number d,
\* _normalize_date_input returns the base month with the zero-padded day when
\* d is in 1..31 and exists in that month, and an error with no date
\* otherwise; an add whose date was refused adds no entry.
C12_DayOfMonth ==
  [][/\ (call'.fn = "_normalize_date_input" /\ IsDigit(Strip(call'.text)))
          => DayExpected(call')
     /\ (last'.op \in {"BudgetApp.add_income", "BudgetApp.add_expense"}
           /\ call'.res.err # None)
          => UNCHANGED <<incomes, expenses>>
    ]_vars

\* C13 as claimed: for a blank date text, _normalize_date_input and _ask_date
\* return the base month when it is a valid YYYY-MM and no date otherwise,
\* without an error; a base month that is not valid is never returned.
C13_BlankGivesBaseMonth ==
  (/\ call.fn \in {"_normalize_date_input", "_ask_date"}
   /\ Strip(call.text) = <<>>)
    => /\ call.res.exc = "none"
       /\ call.res.err = None
       /\ IF IsYearMonth(Strip(Or(call.base, <<>>)))
          THEN call.res.date = Strip(call.base)
          ELSE ~Truthy(call.res.date)

\* a date text that is neither blank, nor a valid YYYY-MM or YYYY-MM-DD, nor
\* a whole number
OtherDateText(t) ==
  LET s == Strip(t)
  IN  s # <<>> /\ ~IsYearMonth(s) /\ ~IsYearMonthDay(s) /\ ~IsDigit(s)

\* C14 as claimed: when the date typed for a new entry is neither blank, nor
\* valid, nor a whole number, the add (GUI add_income / add_expense, CLI
\* interactive entry) still adds the entry, with a default date.
C14_BadDateStillAdds ==
  [][(/\ last'.op \in {"BudgetApp.add_income", "BudgetApp.add_expense",
                       "interactive_income", "interactive_expense"}
      /\ last'.out # "Invalid amount"
      /\ OtherDateText(call'.text))
       => Len(incomes') + Len(expenses') = Len(incomes) + Len(expenses) + 1
    ]_vars

\* the amount the claim expects for an amount argument or text: the number,
\* 0.0 when it is negative or no number
ClampExpected(arg) ==
  LET v == IF arg.t = "float" THEN arg.f
           ELSE IF arg.t = "str" THEN ParseFloat(Strip(RemoveCommas(arg.s)))
           ELSE ValueError
  IN  IF v.k = "ValueError" \/ v.k = "nan" \/ FLt(v, Zero) THEN Zero ELSE v

\* the entry a step has added, as a set (empty when it added none)
Added ==
  {incomes'[i].amount : i \in (Len(incomes) + 1)..Len(incomes')} \cup
  {expenses'[i].amount : i \in (Len(expenses) + 1)..Len(expenses')}

\* C15 as claimed: no add is refused because of its amount, and the entry
\* added has the amount given, or 0.0 when that was negative or no number
\* (core add_income / add_expense, GUI add_income / add_expense, CLI
\* interactive entry).
C15_BadAmountClamped ==
  [][(last'.op \in {"add_income", "add_expense", "BudgetApp.add_income",
                    "BudgetApp.add_expense", "interactive_income", "interactive_expense"})
       => /\ last'.out # "Invalid amount"
          /\ last'.out = "ok" => Added = {ClampExpected(last'.amount)}
    ]_vars

\* C16 as claimed: the mobile parse_amount gives 0.0 for a value that float()
\* refuses or that is negative, so no amount of the mobile lists, as stored or
\* as totals() sums it, is negative, and neither of the two totals is.
C16_MobileAmountsNonNegative ==
  app = "mobile" =>
    /\ \A i \in 1..Len(incomes) :
         /\ ~FLt(parse_amount(incomes[i].amount), Zero)
         /\ incomes[i].amount.t = "float" => ~FLt(incomes[i].amount.f, Zero)
    /\ \A i \in 1..Len(expenses) :
         /\ ~FLt(parse_amount(expenses[i].amount), Zero)
         /\ expenses[i].amount.t = "float" => ~FLt(expenses[i].amount.f, Zero)
    /\ ~FLt(totals(incomes, expenses).income_total, Zero)
    /\ ~FLt(totals(incomes, expenses).expense_total, Zero)

\* the core ledger built from the mobile records with add_income and
\* add_expense, each record's raw amount passed on as it is
CoreIncomes == [i \in 1..Len(incomes) |->
                 NewIncome(None, incomes[i].name, incomes[i].amount, incomes[i].date)]

CoreExpenses == [i \in 1..Len(expenses) |->
                  NewExpense(None, expenses[i].name, expenses[i].amount,
                             expenses[i].category, expenses[i].date)]

\* C17 as claimed: on the same records the mobile totals() equal the core's
\* total_income, total_expenses, net and profit_margin, and the rows of the
\* mobile expenses_by_category carry the core's per-category amounts and
\* percentages of the expenses.
C17_MobileMatchesCore ==
  app = "mobile" =>
    LET t == totals(incomes, expenses)
        rows == mobile_expenses_by_category(expenses)
        by_cat == expenses_by_category(CoreIncomes, CoreExpenses)
        pct == expense_percentages_by_category(CoreIncomes, CoreExpenses, T_expenses)
    IN  /\ t.income_total = total_income(CoreIncomes, CoreExpenses)
        /\ t.expense_total = total_expenses(CoreIncomes, CoreExpenses)
        /\ t.profit = net(CoreIncomes, CoreExpenses)
        /\ profit_margin(CoreIncomes, CoreExpenses) = Returned(t.profit_margin)
        /\ {rows[i].category : i \in 1..Len(rows)} = DOMAIN by_cat
        /\ pct.exc = "none"
        /\ \A i \in 1..Len(rows) :
             /\ rows[i].amount = by_cat[rows[i].category]
             /\ rows[i].percent = pct.val[rows[i].category]

\* the ledger of the worked example, whatever the order of the additions
ExampleLedger ==
  /\ Len(incomes) = 2
  /\ \E i, j \in 1..2 : /\ i # j
                        /\ incomes[i].amount = Fin(5000, 1)
                        /\ incomes[j].amount = Zero
  /\ Len(expenses) = 2
  /\ \E i, j \in 1..2 : /\ i # j
                        /\ expenses[i].category = T_Housing
                        /\ expenses[i].amount = Fin(1500, 1)
                        /\ expenses[j].category = T_Food
                        /\ expenses[j].amount = Fin(400, 1)

ExampleReport ==
  /\ total_income(incomes, expenses) = Fin(5000, 1)
  /\ total_expenses(incomes, expenses) = Fin(1900, 1)
  /\ net(incomes, expenses) = Fin(3100, 1)
  /\ profit_margin(incomes, expenses) = Returned(Fin(62, 1))
  /\ expense_percentages_by_category(incomes, expenses, T_income)
       = Returned((T_Housing :> Fin(30, 1)) @@ (T_Food :> Fin(8, 1)))

\* C18: an income added with a blank, non-numeric or None amount is stored
\* with 0, and the ledger of incomes 5000 and 0 and expenses Housing 1500 and
\* Food 400 has total income 5000, total expenses 1900, net 3100, profit
\* margin 62 and percentages of income Housing 30 and Food 8.
C18_Example ==
  /\ (last.op = "add_income" /\ last.amount \in ExampleIncomes \ {FloatArg(Fin(5000, 1))})
       => incomes[Len(incomes)].amount = Zero
  /\ ExampleLedger => ExampleReport

\* C18 witness: the example's ledger is complete and its second income was
\* added last, with a blank amount
C18_Witness ==
  /\ ExampleLedger
  /\ last.op = "add_income"
  /\ last.amount = TextArg(<<>>)
  /\ incomes[2].amount = Zero
  /\ incomes[1].amount = Fin(5000, 1)

\* the month the claimed inference gives for the entries: of the YYYY-MM
\* prefixes of the valid dates (month in 1..12, day in 1..31) the one counted
\* most often, the smallest in text order among equals; None without one
ExpectedMonth(inc, exp) ==
  LET ds == EntryDates(inc, exp)
      Valid(i) == IsYearMonth(ds[i]) \/ IsYearMonthDay(ds[i])
      yms == {SubSeq(ds[i], 1, 7) : i \in {j \in 1..Len(ds) : Valid(j)}}
      Count(ym) == Cardinality({i \in 1..Len(ds) : Valid(i) /\ SubSeq(ds[i], 1, 7) = ym})
  IN  IF yms = {} THEN None
      ELSE CHOOSE ym \in yms :
             \A o \in yms \ {ym} : \/ Count(o) < Count(ym)
                                   \/ (Count(o) = Count(ym) /\ TextLt(ym, o))

\* C19 as claimed: when a file is opened, the month inferred from its entries
\* is the most frequent YYYY-MM among their valid dates (the smallest on a
\* tie) and goes to the Month field; without a dated entry nothing is
\* inferred and the Month field stays as it was.
C19_MonthInferred ==
  [][(last'.op = "open_csv" /\ last'.out # "Failed to open CSV")
       => /\ last'.out = "ok"
          /\ var_month' = IF ExpectedMonth(incomes', expenses') = None THEN var_month
                          ELSE ExpectedMonth(incomes', expenses')
    ]_vars

\* the entries of seq at the positions (from 0) that sel does not hold, in
\* their order
Kept(seq, sel) ==
  LET F[i \in 0..Len(seq)] ==
        IF i = 0 THEN <<>>
        ELSE IF (i - 1) \in sel THEN F[i - 1] ELSE Append(F[i - 1], seq[i])
  IN  F[Len(seq)]

\* C20 as claimed: a removal leaves the entries at the positions not
\* selected, in order, skips a selected position that does not exist, and
\* leaves the other sequence and the month label unchanged.
C20_RemovalKeepsMonth ==
  [][/\ \A sel \in StaleSelections(incomes) :
          remove_income_selected(sel)
            => /\ incomes' = Kept(incomes, sel)
               /\ last'.out = "ok"
               /\ expenses' = expenses
               /\ month' = month
     /\ \A sel \in StaleSelections(expenses) :
          remove_expense_selected(sel)
            => /\ expenses' = Kept(expenses, sel)
               /\ last'.out = "ok"
               /\ incomes' = incomes
               /\ month' = month
    ]_vars

\* C20 amended: a removal leaves the entries at the positions not selected,
\* in order, skips a selected position that does not exist, and leaves the
\* other sequence unchanged; the month label becomes the text of the Month
\* field without its surrounding blanks, and is unchanged when that is blank.
C20_Removal ==
  [][/\ \A sel \in StaleSelections(incomes) :
          remove_income_selected(sel)
            => /\ incomes' = Kept(incomes, sel)
               /\ last'.out = "ok"
               /\ expenses' = expenses
               /\ month' = IF Strip(var_month) = <<>> THEN month ELSE Strip(var_month)
     /\ \A sel \in StaleSelections(expenses) :
          remove_expense_selected(sel)
            => /\ expenses' = Kept(expenses, sel)
               /\ last'.out = "ok"
               /\ incomes' = incomes
               /\ month' = IF Strip(var_month) = <<>> THEN month ELSE Strip(var_month)
    ]_vars

\* C20 witness: an income was removed and the income B is left, next to an
\* expense; the month label has followed the edited Month field
C20_Witness ==
  /\ last.op = "remove_income_selected"
  /\ Len(incomes) = 1
  /\ incomes[1].name = T_B
  /\ Len(expenses) = 1
  /\ var_month = D_2025_09
  /\ month = D_2025_09

\* x has at most two decimals: round(x, 2) leaves it as it is
TwoDecimals(x) == Round2(x) = x

AllTwoDecimals(d) == \A c \in DOMAIN d : TwoDecimals(d[c])

\* C21: in the report of to_dict() every monetary and percentage field is
\* rounded to 2 decimal places: the four totals, every value of the three
\* category mappings, and the amount of every entry listed under incomes
\* and expenses.
C21_ReportRounded ==
  LET td == to_dict(month, incomes, expenses)
  IN  td.exc = "none" =>
        /\ TwoDecimals(td.val.totals.income)
        /\ TwoDecimals(td.val.totals.expenses)
        /\ TwoDecimals(td.val.totals.net)
        /\ TwoDecimals(td.val.totals.profit_margin_pct)
        /\ AllTwoDecimals(td.val.breakdown.by_category)
        /\ AllTwoDecimals(td.val.breakdown.percent_of_income)
        /\ AllTwoDecimals(td.val.breakdown.percent_of_expenses)
        /\ \A i \in 1..Len(td.val.incomes) : TwoDecimals(td.val.incomes[i].amount)
        /\ \A i \in 1..Len(td.val.expenses) : TwoDecimals(td.val.expenses[i].amount)

\* The date of a row that has no non-blank date value, as the rule of the
\* year/month[/day] columns states it: year of exactly 4 digits and month of
\* 1 or 2 digits give YYYY-MM, or YYYY-MM-DD with an all-digit day; any
\* other row keeps the value of its date column
SynthesizedDate(fieldnames, fields) ==
  LET date_val == RowGet(fieldnames, fields, T_date)
      year == RowGet(fieldnames, fields, T_year)
      mon == RowGet(fieldnames, fields, T_month)
      day == RowGet(fieldnames, fields, T_day)
  IN  IF IsDigit(year) /\ Len(year) = 4 /\ IsDigit(mon) /\ Len(mon) \in {1, 2}
      THEN IF Truthy(day) /\ IsDigit(day)
           THEN year \o <<"-">> \o Pad2(ParseInt(mon)) \o <<"-">> \o Pad2(ParseInt(day))
           ELSE year \o <<"-">> \o Pad2(ParseInt(mon))
      ELSE date_val

\* the row read last
LastRow == csv_rows[Len(csv_rows)]

\* C22 as claimed: a row of read_csv without a non-blank date value gets the
\* date YYYY-MM or YYYY-MM-DD built from its year, month and day columns
\* when year is exactly 4 digits and month is 1 or 2 digits; in every other
\* case (year or month missing, of another length, or with a non-digit) it
\* gets no synthesized date and is still imported.
C22_SynthesizedDate ==
  (/\ csv_pc \in {"rows", "raised"}
   /\ csv_rows # <<>>
   /\ LastRow # <<>>
   /\ Len(LastRow) <= Len(csv_fieldnames)
   /\ ~Truthy(RowGet(csv_fieldnames, LastRow, T_date))
   /\ RowGet(csv_fieldnames, LastRow, T_type) \in {T_income, T_expense}) =>
     /\ csv_pc = "rows"
     /\ LET entries == IF RowGet(csv_fieldnames, LastRow, T_type) = T_income
                       THEN csv_acc.incomes ELSE csv_acc.expenses
        IN  /\ entries # <<>>
            /\ entries[Len(entries)].date = SynthesizedDate(csv_fieldnames, LastRow)

\* C23: after any sequence of add_income / add_expense calls and CSV
\* imports every entry of the ledger has a non-empty name and every expense
\* a non-empty category; a blank or whitespace-only name passed to
\* add_income (add_expense) is stored as "Income" ("Expense"), and a blank,
\* whitespace-only or omitted category as "Uncategorized".
C23_NamesNonEmpty ==
  [][/\ \A i \in 1..Len(incomes') : incomes'[i].name # <<>>
     /\ \A i \in 1..Len(expenses') :
          expenses'[i].name # <<>> /\ expenses'[i].category \notin {<<>>, None}
     /\ \A n \in NameInputs :
          (add_income(n, FloatArg(Fin(5000, 1)), None) /\ Strip(n) = <<>>) =>
             incomes'[Len(incomes')].name = T_Income
     /\ \A n \in NameInputs, c \in CategoryInputs :
          add_expense(n, FloatArg(Fin(400, 1)), c, None) =>
             /\ Strip(n) = <<>> => expenses'[Len(expenses')].name = T_Expense
             /\ (c = None \/ Strip(c) = <<>>) =>
                  expenses'[Len(expenses')].category = T_Uncategorized]_vars

\* C23 witness: add_income and add_expense were called with blank names (no
\* name input other than " A" has letters), the expense without a category
\* that has letters, and the entries carry the defaults
C23_Witness ==
  /\ last.op = "add_expense"
  /\ incomes # <<>> /\ LastIncome.name = T_Income
  /\ expenses # <<>>
  /\ LastExpense.name = T_Expense
  /\ LastExpense.category = T_Uncategorized

\* C24 as claimed: every record the mobile add_income or add_expense stores
\* has a non-empty name, a blank name input being replaced by "Income"
\* (for incomes) or "Expense" (for expenses) before the record is appended.
C24_MobileNamesNonEmpty ==
  /\ (last.op = "BudgetMobile.add_income" /\ last.out = "ok") => LastIncome.name # <<>>
  /\ (last.op = "BudgetMobile.add_expense" /\ last.out = "ok") => LastExpense.name # <<>>

\* the expenses of exp whose category is c, in their order
InCategory(exp, c) == SelectSeq(exp, LAMBDA e : e.category = c)

\* the sum of the values of a mapping
RECURSIVE SumOfValues(_)
SumOfValues(d) ==
  IF DOMAIN d = {} THEN Zero
  ELSE LET c == CHOOSE k \in DOMAIN d : TRUE
       IN  FAdd(d[c], SumOfValues([k \in DOMAIN d \ {c} |-> d[k]]))

OneAppended(old, new) == Len(new) = Len(old) + 1 /\ SubSeq(new, 1, Len(old)) = old

\* C26: add_income appends exactly one entry at the end of the income
\* sequence and leaves every existing income entry, the whole expense
\* sequence and the month label unchanged; add_expense does the same for
\* the expense sequence; so each sequence lists its entries in insertion
\* order.
C26_AddFrame ==
  [][/\ \A n \in NameInputs :
          add_income(n, FloatArg(Fin(5000, 1)), None) =>
             /\ OneAppended(incomes, incomes')
             /\ incomes'[Len(incomes')] = NewIncome(month, n, FloatArg(Fin(5000, 1)), None)
             /\ expenses' = expenses
             /\ month' = month
     /\ \A n \in NameInputs, c \in CategoryInputs :
          add_expense(n, FloatArg(Fin(400, 1)), c, None) =>
             /\ OneAppended(expenses, expenses')
             /\ expenses'[Len(expenses')] = NewExpense(month, n, FloatArg(Fin(400, 1)), c, None)
             /\ incomes' = incomes
             /\ month' = month]_vars

\* C26 witness: an income named "Income" was added, then an expense, then an
\* income named "A": the incomes stand in that order
C26_Witness ==
  /\ last.op = "add_income"
  /\ Len(incomes) = 2
  /\ incomes[1].name = T_Income
  /\ incomes[2].name = T_A
  /\ Len(expenses) = 1

\* C27 as claimed: the date validity checks return a boolean and never
\* raise, whatever the text is (a text of length 10 with '-' at positions 4
\* and 7 and one more '-' elsewhere included), so no date typed by the user
\* ends _ask_date or _normalize_date_input with an exception.
C27_ValidityNeverRaises ==
  call.fn \in {"_normalize_date_input", "_ask_date"} =>
    /\ _valid_ymd(Strip(call.text)) \in {"True", "False"}
    /\ _is_valid_ymd(Strip(call.text)) \in {"True", "False"}
    /\ _valid_ym(Strip(call.text)) \in BOOLEAN
    /\ _is_valid_ym(Strip(call.text)) \in BOOLEAN
    /\ call.res.exc = "none"

\* C28: in the GUI an open whose read_csv raises leaves the income
\* sequence, the expense sequence and the month label as they were; an open
\* whose read_csv returns replaces both sequences wholesale with the parsed
\* entries.
C28_FailedOpenKeepsLedger ==
  [][last'.op = "open_csv" =>
       \A f \in OpenFiles :
         open_csv(f) =>
           \E r \in {read_csv(f)} :
             IF r.exc # "none"
             THEN incomes' = incomes /\ expenses' = expenses /\ month' = month
             ELSE incomes' = r.incomes /\ expenses' = r.expenses]_vars

\* C28 witness: an open has failed on a ledger that holds an income and an
\* expense
C28_Witness ==
  /\ last.op = "open_csv"
  /\ last.out = "Failed to open CSV"
  /\ incomes # <<>>
  /\ expenses # <<>>

\* C29 as claimed: a mobile Open that reports "Open failed" leaves
\* meta_year, meta_month, incomes and expenses all unchanged: the budget in
\* memory is replaced completely or not modified at all.
C29_FailedOpenAllOrNothing ==
  [][(last'.op = "on_open" /\ last'.out = "Open failed") =>
       meta' = meta /\ incomes' = incomes /\ expenses' = expenses]_vars

\* C30 as claimed: after any sequence of startup, _read_date_controls,
\* use_today, on_new and successful opens, meta_month is an integer in
\* 1..12, so every date _compose_date gives a new entry has a month field
\* in 01..12.
C30_MetaMonthInRange ==
  /\ meta.month \in 1..12
  /\ \E mm \in {Slice(_compose_date(5), 5, 7)} : IsDigit(mm) /\ ParseInt(mm) \in 1..12

====
